---- MODULE Spec2Model ----
(***************************************************************************)
(* Rate differencing, snapshot stores and top-K selection of the           *)
(* housekeeper collectors (src/housekeeper/collectors).                    *)
(*                                                                         *)
(* Every collector owns its snapshot store exclusively and the collectors  *)
(* share no state, so a behaviour follows ONE collector instance: Init     *)
(* constructs an instance of one class (cls, self) on some host, and the   *)
(* main loop alternates between calling its collect() and rendering what   *)
(* it returned.  host is what the instance finds under /sys (it does not   *)
(* change); frame holds the locals of the collect() call that returned     *)
(* last, until the caller has rendered them.                               *)
(*                                                                         *)
(* Rates are Python floats; they are kept as exact fractions num/den in    *)
(* lowest terms (den > 0), so that 0.0, the sign and equality of two rates *)
(* mean what they mean in the program.                                     *)
(***************************************************************************)
EXTENDS Integers, Sequences, FiniteSets, TLC

VARIABLES cls, host, self, pc, frame

vars == <<cls, host, self, pc, frame>>

\* ---------------------------------------------------------------- bounds
\* the raw counters of one reading add up to at most MaxTotal
MaxTotal == 2
\* time.monotonic() returns TimeStep, 2*TimeStep, .. MaxTicks*TimeStep seconds
MaxTicks == 2
TimeStep == 6

Times == {k * TimeStep : k \in 1..MaxTicks}

EmptyMap == [x \in {} |-> x]

\* the ways to give every slot in F a counter value, within a total of b
RECURSIVE Alloc(_, _)
Alloc(F, b) ==
    IF F = {} THEN {EmptyMap}
    ELSE LET f == CHOOSE x \in F : TRUE
         IN  UNION {{[x \in F |-> IF x = f THEN v ELSE g[x]] : g \in Alloc(F \ {f}, b - v)}
                      : v \in 0..b}

\* the readings of a counter source: a map from some of the Names to a record
\* of the counter Fields
Readings(Names, Fields) ==
    UNION {{[n \in S |-> [f \in Fields |-> a[<<n, f>>]]] : a \in Alloc(S \X Fields, MaxTotal)}
             : S \in SUBSET Names}

\* ------------------------------------------------------- float arithmetic
RECURSIVE GCD(_, _)
GCD(a, b) == IF b = 0 THEN a ELSE GCD(b, a % b)

Abs(x) == IF x < 0 THEN 0 - x ELSE x

\* n / d on floats.  den = 0 marks the ZeroDivisionError of a division by 0.
FloatDiv(n, d) ==
    IF d = 0 THEN [num |-> n, den |-> 0]
    ELSE IF n = 0 THEN [num |-> 0, den |-> 1]
    ELSE LET g == GCD(Abs(n), Abs(d))
             s == IF d < 0 THEN 0 - 1 ELSE 1
         IN  [num |-> s * (n \div g), den |-> s * (d \div g)]

\* the literal 0.0
Zero == [num |-> 0, den |-> 1]

IsZero(r) == r.den > 0 /\ r.num = 0
IsFinite(r) == r.den > 0
IsNegative(r) == r.den > 0 /\ r.num < 0

\* a + b, a < b on floats (finite operands)
FloatAdd(a, b) == FloatDiv(a.num * b.den + b.num * a.den, a.den * b.den)
FloatLess(a, b) == a.num * b.den < b.num * a.den

\* max(0, x) as the program writes it on a float x
Max0(r) == IF FloatLess(Zero, r) THEN r ELSE Zero

\* ------------------------------------------------------------- sorting
\* Names are compared as Python compares str: by their rank in NameOrder.
NameOrder == <<"", "bond0", "cpu", "cpu0", "eth0", "md0", "sda", "sdb">>
Rank(name) == CHOOSE i \in 1..Len(NameOrder) : NameOrder[i] = name

\* tuple comparison: a < b for two sequences of integers, and a = b up to
\* the length of the shorter one never arises (keys have one length)
RECURSIVE LexLess(_, _)
LexLess(a, b) ==
    IF a = <<>> \/ b = <<>> THEN FALSE
    ELSE IF Head(a) < Head(b) THEN TRUE
    ELSE IF Head(a) > Head(b) THEN FALSE
    ELSE LexLess(Tail(a), Tail(b))

\* list.sort(key=...) on a list of <<key, item>> pairs: ascending and stable
RECURSIVE InsertAsc(_, _)
InsertAsc(sorted, x) ==
    IF sorted = <<>> THEN <<x>>
    ELSE IF LexLess(x[1], Head(sorted)[1]) THEN <<x>> \o sorted
    ELSE <<Head(sorted)>> \o InsertAsc(Tail(sorted), x)

RECURSIVE SortAsc(_)
SortAsc(s) ==
    IF s = <<>> THEN <<>>
    ELSE InsertAsc(SortAsc(SubSeq(s, 1, Len(s) - 1)), s[Len(s)])

Items(pairs) == [i \in 1..Len(pairs) |-> pairs[i][2]]

\* sorted(set of names): ascending sequence of the names in S
SortedNames(S) ==
    CHOOSE s \in [1..Cardinality(S) -> S] :
        \A i, j \in 1..Cardinality(S) : i < j => Rank(s[i]) < Rank(s[j])

\* dict.get(key, default)
Get(map, key, default) == IF key \in DOMAIN map THEN map[key] ELSE default

\* ------------------------------------------------------------ the caller
idle == [op |-> "idle"]

\* the main loop hands the collected values to the renderer and goes round;
\* an exception out of collect() ends the loop
render ==
    /\ pc = "returned"
    /\ pc' = "idle"
    /\ frame' = idle
    /\ UNCHANGED <<cls, host, self>>

\* ------------------------------------------------------------------ disk
DiskNames == {"sda", "sdb"}
DiskStats == {"rd_sectors", "wr_sectors", "rd_ios", "wr_ios"}
DiskReadings == Readings(DiskNames, DiskStats)

\* what _discover_md_arrays() finds under /sys/block: the array md0 built on
\* sdb, next to the plain disk sda
DiskHosts ==
    {[n \in {"md0"} |-> [level |-> "raid1", members |-> <<"sdb">>, state |-> "clean"]]}

member_to_md(md_info) ==
    [m \in UNION {{md_info[a].members[i] : i \in 1..Len(md_info[a].members)} : a \in DOMAIN md_info}
        |-> CHOOSE a \in DOMAIN md_info : \E i \in 1..Len(md_info[a].members) : md_info[a].members[i] = m]

DiskCollector_init(md_info) ==
    [prev |-> EmptyMap, prev_time |-> 0,
     md_info |-> md_info, member_to_md |-> member_to_md(md_info)]

DiskUsage(name) ==
    [name |-> name, read_bytes_sec |-> Zero, write_bytes_sec |-> Zero,
     read_iops |-> Zero, write_iops |-> Zero,
     raid_level |-> "", raid_members |-> <<>>, raid_state |-> "", raid_member_of |-> ""]

\* DiskCollector_usage with `self._prev.get(name, DiskStats(name))` in place
\* of `self._prev.get(name)`: a disk without a previous sample is compared
\* with counters of zero
DiskCollector_usage_default_prev(s, curr, dt, name) ==
    LET first == dt <= 0
        d == curr[name]
        prev == Get(s.prev, name, [f \in DiskStats |-> 0])
        du == IF first THEN DiskUsage(name)
              ELSE [DiskUsage(name) EXCEPT
                      !.read_bytes_sec = FloatDiv(512 * (d.rd_sectors - prev.rd_sectors), dt),
                      !.write_bytes_sec = FloatDiv(512 * (d.wr_sectors - prev.wr_sectors), dt),
                      !.read_iops = FloatDiv(d.rd_ios - prev.rd_ios, dt),
                      !.write_iops = FloatDiv(d.wr_ios - prev.wr_ios, dt)]
        raid == IF name \in DOMAIN s.md_info
                THEN [du EXCEPT !.raid_level = s.md_info[name].level,
                                !.raid_members = s.md_info[name].members,
                                !.raid_state = s.md_info[name].state]
                ELSE IF name \in DOMAIN s.member_to_md
                THEN [du EXCEPT !.raid_member_of = s.member_to_md[name]]
                ELSE du
    IN  [usage |-> raid, divided |-> ~first]

\* one pass of the loop body over `name`: the record built and whether the
\* branch that divides by dt was taken
DiskCollector_usage(s, curr, dt, name) ==
    LET first == name \notin DOMAIN s.prev \/ dt <= 0
        d == curr[name]
        prev == s.prev[name]
        du == IF first THEN DiskUsage(name)
              ELSE [DiskUsage(name) EXCEPT
                      !.read_bytes_sec = FloatDiv(512 * (d.rd_sectors - prev.rd_sectors), dt),
                      !.write_bytes_sec = FloatDiv(512 * (d.wr_sectors - prev.wr_sectors), dt),
                      !.read_iops = FloatDiv(d.rd_ios - prev.rd_ios, dt),
                      !.write_iops = FloatDiv(d.wr_ios - prev.wr_ios, dt)]
        raid == IF name \in DOMAIN s.md_info
                THEN [du EXCEPT !.raid_level = s.md_info[name].level,
                                !.raid_members = s.md_info[name].members,
                                !.raid_state = s.md_info[name].state]
                ELSE IF name \in DOMAIN s.member_to_md
                THEN [du EXCEPT !.raid_member_of = s.member_to_md[name]]
                ELSE du
    IN  [usage |-> raid, divided |-> ~first]

Disk_sort_key(d) ==
    IF d.raid_level # "" THEN <<0, Rank(d.name), Rank("")>>
    ELSE IF d.raid_member_of # "" THEN <<0, Rank(d.raid_member_of), Rank(d.name)>>
    ELSE <<1, Rank(d.name), Rank("")>>

\* DiskCollector.collect().  The read of /proc/diskstats either raises (the
\* Linux reader has no handler) or yields the reading curr.
DiskCollector_collect ==
    /\ cls = "DiskCollector" /\ pc = "idle"
    /\ \E now \in Times :
         \/ /\ pc' = "raised"
            /\ frame' = [op |-> "collect", now |-> now]
            /\ UNCHANGED <<cls, host, self>>
         \/ \E curr \in DiskReadings :
              \E dt \in {IF self.prev_time # 0 THEN now - self.prev_time ELSE 0} :
              \E names \in {SortedNames(DOMAIN curr)} :
              \E each \in {[i \in 1..Len(names) |-> DiskCollector_usage(self, curr, dt, names[i])]} :
              \E usages \in {Items(SortAsc([i \in 1..Len(each) |->
                                <<Disk_sort_key(each[i].usage), each[i].usage>>]))} :
                  /\ self' = [self EXCEPT !.prev = curr, !.prev_time = now]
                  /\ pc' = "returned"
                  /\ frame' = [op |-> "collect", now |-> now, curr |-> curr, dt |-> dt,
                               prev |-> self.prev, prev_time |-> self.prev_time,
                               usages |-> usages,
                               divided |-> \E i \in 1..Len(each) : each[i].divided]
                  /\ UNCHANGED <<cls, host>>

\* --------------------------------------------------------------- network
NetNames == {"bond0", "eth0"}
NetStats == {"rx_bytes", "tx_bytes"}
NetReadings == Readings(NetNames, NetStats)

\* what _classify_interfaces() and _discover_bonds() find: no /sys/class/net
\* at all, or two classified interfaces, without and with bond0 built on eth0
NetHosts ==
    {[classification |-> EmptyMap, bonds |-> EmptyMap],
     [classification |-> [n \in NetNames |-> IF n = "eth0" THEN "WAN" ELSE "LAN"],
      bonds |-> EmptyMap],
     [classification |-> [n \in NetNames |-> IF n = "eth0" THEN "WAN" ELSE "LAN"],
      bonds |-> [n \in {"bond0"} |-> [mode |-> "802.3ad 4", members |-> <<"eth0">>]]]}

type_order(t) == CASE t = "WAN" -> 0 [] t = "LAN" -> 1 [] t = "VIR" -> 2 [] OTHER -> 3

member_to_bond(bond_info) ==
    [m \in UNION {{bond_info[b].members[i] : i \in 1..Len(bond_info[b].members)} : b \in DOMAIN bond_info}
        |-> CHOOSE b \in DOMAIN bond_info : \E i \in 1..Len(bond_info[b].members) : bond_info[b].members[i] = m]

\* _update_bonds()
NetworkCollector_update_bonds(s, h) ==
    [s EXCEPT !.bond_info = h.bonds, !.member_to_bond = member_to_bond(h.bonds)]

NetworkCollector_init(h) ==
    NetworkCollector_update_bonds(
        [prev |-> EmptyMap, prev_time |-> 0, classification |-> EmptyMap,
         classify_interval |-> 0, bond_info |-> EmptyMap, member_to_bond |-> EmptyMap], h)

\* _update_classification(): the classification is read again once it is
\* more than 10.0 s old
NetworkCollector_update_classification(s, h, now) ==
    IF now - s.classify_interval > 10
    THEN [NetworkCollector_update_bonds(s, h) EXCEPT
            !.classification = h.classification, !.classify_interval = now]
    ELSE s

NetUsage(name, net_type) ==
    [name |-> name, net_type |-> net_type, rx_bytes_sec |-> Zero, tx_bytes_sec |-> Zero,
     bond_mode |-> "", bond_members |-> <<>>, bond_member_of |-> ""]

\* NetworkCollector_usage with `dt == 0` in place of `dt <= 0`
NetworkCollector_usage_dt_zero(s, curr, dt, name) ==
    LET first == name \notin DOMAIN s.prev \/ dt = 0
        c == curr[name]
        prev == s.prev[name]
        net_type == Get(s.classification, name, "???")
        nu == IF first THEN NetUsage(name, net_type)
              ELSE [NetUsage(name, net_type) EXCEPT
                      !.rx_bytes_sec = FloatDiv(c.rx_bytes - prev.rx_bytes, dt),
                      !.tx_bytes_sec = FloatDiv(c.tx_bytes - prev.tx_bytes, dt)]
        bond == IF name \in DOMAIN s.bond_info
                THEN [nu EXCEPT !.bond_mode = s.bond_info[name].mode,
                                !.bond_members = s.bond_info[name].members]
                ELSE IF name \in DOMAIN s.member_to_bond
                THEN [nu EXCEPT !.bond_member_of = s.member_to_bond[name]]
                ELSE nu
    IN  [usage |-> bond, divided |-> ~first]

\* one pass of the loop body over `name`, as DiskCollector_usage
NetworkCollector_usage(s, curr, dt, name) ==
    LET first == name \notin DOMAIN s.prev \/ dt <= 0
        c == curr[name]
        prev == s.prev[name]
        net_type == Get(s.classification, name, "???")
        nu == IF first THEN NetUsage(name, net_type)
              ELSE [NetUsage(name, net_type) EXCEPT
                      !.rx_bytes_sec = FloatDiv(c.rx_bytes - prev.rx_bytes, dt),
                      !.tx_bytes_sec = FloatDiv(c.tx_bytes - prev.tx_bytes, dt)]
        bond == IF name \in DOMAIN s.bond_info
                THEN [nu EXCEPT !.bond_mode = s.bond_info[name].mode,
                                !.bond_members = s.bond_info[name].members]
                ELSE IF name \in DOMAIN s.member_to_bond
                THEN [nu EXCEPT !.bond_member_of = s.member_to_bond[name]]
                ELSE nu
    IN  [usage |-> bond, divided |-> ~first]

Net_sort_key(s, n) ==
    LET t == type_order(n.net_type)
    IN  IF n.bond_mode # "" THEN <<t, Rank(n.name), 0, Rank("")>>
        ELSE IF n.bond_member_of # ""
        THEN <<type_order(Get(s.classification, n.bond_member_of, "???")),
               Rank(n.bond_member_of), 1, Rank(n.name)>>
        ELSE <<t, Rank(n.name), 0, Rank("")>>

\* NetworkCollector.collect().  The read of /proc/net/dev either raises or
\* yields the reading curr; the clock is read once for both of its uses.
NetworkCollector_collect ==
    /\ cls = "NetworkCollector" /\ pc = "idle"
    /\ \E now \in Times :
       \E s \in {NetworkCollector_update_classification(self, host, now)} :
         \/ /\ self' = s
            /\ pc' = "raised"
            /\ frame' = [op |-> "collect", now |-> now]
            /\ UNCHANGED <<cls, host>>
         \/ \E curr \in NetReadings :
              \E dt \in {IF s.prev_time # 0 THEN now - s.prev_time ELSE 0} :
              \E names \in {Items(SortAsc([i \in 1..Cardinality(DOMAIN curr) |->
                    <<<<type_order(Get(s.classification, SortedNames(DOMAIN curr)[i], "???")),
                        Rank(SortedNames(DOMAIN curr)[i])>>,
                      SortedNames(DOMAIN curr)[i]>>]))} :
              \E each \in {[i \in 1..Len(names) |-> NetworkCollector_usage(s, curr, dt, names[i])]} :
              \E usages \in {IF DOMAIN s.bond_info # {}
                              THEN Items(SortAsc([i \in 1..Len(each) |->
                                     <<Net_sort_key(s, each[i].usage), each[i].usage>>]))
                              ELSE [i \in 1..Len(each) |-> each[i].usage]} :
                  /\ self' = [s EXCEPT !.prev = curr, !.prev_time = now]
                  /\ pc' = "returned"
                  /\ frame' = [op |-> "collect", now |-> now, curr |-> curr, dt |-> dt,
                               prev |-> self.prev, prev_time |-> self.prev_time,
                               usages |-> usages,
                               divided |-> \E i \in 1..Len(each) : each[i].divided]
                  /\ UNCHANGED <<cls, host>>

\* ---------------------------------------------------------------- kernel
\* /proc/stat as the collector reads it: the lines ctxt and intr, or nothing
\* when the file cannot be read (both counters then stay 0)
KernelReadings == Readings({"stat"}, {"ctxt", "intr"})

KernelCollector_init == [prev_ctxt |-> 0, prev_intr |-> 0, prev_time |-> 0]

\* KernelCollector_rates without the test `dt > 0 and self._prev_time > 0`
KernelCollector_rates_unguarded(s, ctxt, intr, dt) ==
    [info |-> [ctx_switches_sec |-> FloatDiv(ctxt - s.prev_ctxt, dt),
               interrupts_sec |-> FloatDiv(intr - s.prev_intr, dt)],
     divided |-> TRUE]

\* the two rates of KernelInfo and whether the branch that divides was taken
KernelCollector_rates(s, ctxt, intr, dt) ==
    IF dt > 0 /\ s.prev_time > 0
    THEN [info |-> [ctx_switches_sec |-> FloatDiv(ctxt - s.prev_ctxt, dt),
                    interrupts_sec |-> FloatDiv(intr - s.prev_intr, dt)],
          divided |-> TRUE]
    ELSE [info |-> [ctx_switches_sec |-> Zero, interrupts_sec |-> Zero], divided |-> FALSE]

\* KernelCollector.collect(); load average, uptime and process counts are
\* passed through as read and are left out of KernelInfo here
KernelCollector_collect ==
    /\ cls = "KernelCollector" /\ pc = "idle"
    /\ \E now \in Times, curr \in KernelReadings :
       \E dt \in {IF self.prev_time # 0 THEN now - self.prev_time ELSE 0} :
       \E ctxt \in {IF "stat" \in DOMAIN curr THEN curr["stat"].ctxt ELSE 0} :
       \E intr \in {IF "stat" \in DOMAIN curr THEN curr["stat"].intr ELSE 0} :
       \E r \in {KernelCollector_rates(self, ctxt, intr, dt)} :
         /\ self' = [prev_ctxt |-> ctxt, prev_intr |-> intr, prev_time |-> now]
         /\ pc' = "returned"
         /\ frame' = [op |-> "collect", now |-> now, curr |-> curr, dt |-> dt,
                      prev |-> self, prev_time |-> self.prev_time,
                      info |-> r.info, divided |-> r.divided]
         /\ UNCHANGED <<cls, host>>

\* ------------------------------------------------------------------- nfs
NfsNames == {"/mnt/a", "/mnt/b"}
NfsStats == {"read_bytes", "write_bytes"}

\* the orders in which the elements of S can be listed
Perms(S) ==
    {o \in [1..Cardinality(S) -> S] : \A i, j \in 1..Cardinality(S) : i # j => o[i] # o[j]}

\* the list `mounts` after _read_net_mounts() and _read_mountstats(): the
\* network mounts in the order of /proc/mounts, with their byte counters
\* (0 when mountstats has no line for the mount)
NfsMounts ==
    UNION {{[i \in 1..Len(o) |-> [mount_point |-> o[i], read_bytes |-> r[o[i]].read_bytes,
                                  write_bytes |-> r[o[i]].write_bytes]] : o \in Perms(DOMAIN r)}
             : r \in Readings(NfsNames, NfsStats)}

NfsMountCollector_init == [prev |-> EmptyMap, prev_time |-> 0]

NfsMountUsage(m) ==
    [mount_point |-> m.mount_point, read_bytes_sec |-> Zero, write_bytes_sec |-> Zero,
     read_iops |-> Zero, write_iops |-> Zero]

\* the rates of a mount without the clamp at zero
NfsMountCollector_usage_raw(s, dt, m) ==
    LET first == m.mount_point \notin DOMAIN s.prev \/ dt <= 0
        prev == s.prev[m.mount_point]
    IN  [usage |-> IF first THEN NfsMountUsage(m)
                   ELSE [NfsMountUsage(m) EXCEPT
                           !.read_bytes_sec = FloatDiv(m.read_bytes - prev.read_bytes, dt),
                           !.write_bytes_sec = FloatDiv(m.write_bytes - prev.write_bytes, dt)],
         divided |-> ~first]

NfsMountCollector_usage(s, dt, m) ==
    LET first == m.mount_point \notin DOMAIN s.prev \/ dt <= 0
        prev == s.prev[m.mount_point]
    IN  [usage |-> IF first THEN NfsMountUsage(m)
                   ELSE [NfsMountUsage(m) EXCEPT
                           !.read_bytes_sec = Max0(FloatDiv(m.read_bytes - prev.read_bytes, dt)),
                           !.write_bytes_sec = Max0(FloatDiv(m.write_bytes - prev.write_bytes, dt))],
         divided |-> ~first]

\* {m.mount_point: m for m in mounts}
NfsSnapshot(mounts) ==
    [k \in {mounts[i].mount_point : i \in 1..Len(mounts)} |->
        mounts[CHOOSE i \in 1..Len(mounts) : mounts[i].mount_point = k]]

\* NfsMountCollector.collect()
NfsMountCollector_collect ==
    /\ cls = "NfsMountCollector" /\ pc = "idle"
    /\ \E now \in Times, mounts \in NfsMounts :
       \E dt \in {IF self.prev_time # 0 THEN now - self.prev_time ELSE 0} :
       \E each \in {[i \in 1..Len(mounts) |-> NfsMountCollector_usage(self, dt, mounts[i])]} :
         /\ self' = IF mounts = <<>> THEN self
                    ELSE [self EXCEPT !.prev = NfsSnapshot(mounts), !.prev_time = now]
         /\ pc' = "returned"
         /\ frame' = [op |-> "collect", now |-> now, curr |-> mounts, dt |-> dt,
                      prev |-> self.prev, prev_time |-> self.prev_time,
                      usages |-> [i \in 1..Len(each) |-> each[i].usage],
                      divided |-> \E i \in 1..Len(each) : each[i].divided]
         /\ UNCHANGED <<cls, host>>

\* ------------------------------------------------------------------- cpu
CpuNames == {"cpu"}
CpuTimes == {"user", "nice", "system", "idle", "iowait", "irq", "softirq", "steal"}

\* a line of /proc/stat with the given user, system and idle jiffies
Jiffies(us, sy, id) ==
    [f \in CpuTimes |-> CASE f = "user" -> us [] f = "system" -> sy
                          [] f = "idle" -> id [] OTHER -> 0]

\* two readings of a long-running host, 100 jiffies apart on cpu0
CpuBefore == [n \in {"cpu0"} |-> Jiffies(1000, 200, 8800)]
CpuAfter == [n \in {"cpu0"} |-> Jiffies(1050, 210, 8840)]

CpuReadings == Readings(CpuNames, CpuTimes) \cup {CpuBefore, CpuAfter}

\* CpuTimes.busy taken for the total
total_busy(ct) ==
    ct.user + ct.nice + ct.system + ct.irq + ct.softirq + ct.steal

\* CpuTimes.total
total(ct) ==
    ct.user + ct.nice + ct.system + ct.idle + ct.iowait + ct.irq + ct.softirq + ct.steal

CpuUsage(label) ==
    [label |-> label, user_pct |-> Zero, nice_pct |-> Zero, system_pct |-> Zero,
     iowait_pct |-> Zero, irq_pct |-> Zero, steal_pct |-> Zero, idle_pct |-> Zero]

\* CpuUsage.total_pct
total_pct(u) == FloatAdd(FloatDiv(100, 1), FloatDiv(0 - u.idle_pct.num, u.idle_pct.den))

CpuCollector_init == [prev |-> EmptyMap]

CpuCollector_usage(s, curr, name) ==
    LET ct == curr[name]
        prev == s.prev[name]
        dt == total(ct) - total(prev)
    IN  IF name \notin DOMAIN s.prev THEN [usage |-> CpuUsage(name), divided |-> FALSE]
        ELSE IF dt = 0 THEN [usage |-> CpuUsage(name), divided |-> FALSE]
        ELSE [usage |->
                [label |-> name,
                 user_pct |-> FloatDiv(100 * (ct.user - prev.user), dt),
                 nice_pct |-> FloatDiv(100 * (ct.nice - prev.nice), dt),
                 system_pct |-> FloatDiv(100 * (ct.system - prev.system), dt),
                 iowait_pct |-> FloatDiv(100 * (ct.iowait - prev.iowait), dt),
                 irq_pct |-> FloatDiv(100 * ((ct.irq + ct.softirq) - (prev.irq + prev.softirq)), dt),
                 steal_pct |-> FloatDiv(100 * (ct.steal - prev.steal), dt),
                 idle_pct |-> FloatDiv(100 * ((ct.idle + ct.iowait) - (prev.idle + prev.iowait)), dt)],
              divided |-> TRUE]

\* len(name) of the labels in NameOrder
StrLen(name) == CASE name = "cpu" -> 3 [] name = "cpu0" -> 4 [] OTHER -> 0

\* CpuCollector.collect().  The read of /proc/stat either raises or yields curr.
CpuCollector_collect ==
    /\ cls = "CpuCollector" /\ pc = "idle"
    /\ \/ /\ pc' = "raised"
          /\ frame' = [op |-> "collect"]
          /\ UNCHANGED <<cls, host, self>>
       \/ \E curr \in CpuReadings :
          \E names \in {Items(SortAsc([i \in 1..Cardinality(DOMAIN curr) |->
                <<<<StrLen(SortedNames(DOMAIN curr)[i]), Rank(SortedNames(DOMAIN curr)[i])>>,
                  SortedNames(DOMAIN curr)[i]>>]))} :
          \E each \in {[i \in 1..Len(names) |-> CpuCollector_usage(self, curr, names[i])]} :
            /\ self' = [self EXCEPT !.prev = curr]
            /\ pc' = "returned"
            /\ frame' = [op |-> "collect", curr |-> curr, prev |-> self.prev,
                         usages |-> [i \in 1..Len(each) |-> each[i].usage],
                         divided |-> \E i \in 1..Len(each) : each[i].divided]
            /\ UNCHANGED <<cls, host>>

\* ----------------------------------------------------------------- top-K
FloatEq(a, b) == ~FloatLess(a, b) /\ ~FloatLess(b, a)

\* list.sort(key=..., reverse=True) on <<key, item>> pairs with float keys:
\* descending, and equal keys keep the order they had
RECURSIVE InsertDesc(_, _)
InsertDesc(sorted, x) ==
    IF sorted = <<>> THEN <<x>>
    ELSE IF FloatLess(Head(sorted)[1], x[1]) THEN <<x>> \o sorted
    ELSE <<Head(sorted)>> \o InsertDesc(Tail(sorted), x)

RECURSIVE SortDesc(_)
SortDesc(s) ==
    IF s = <<>> THEN <<>>
    ELSE InsertDesc(SortDesc(SubSeq(s, 1, Len(s) - 1)), s[Len(s)])

\* s[:n] for n >= 0
Take(s, n) == SubSeq(s, 1, IF n < Len(s) THEN n ELSE Len(s))

\* max(iterable, key=...): the first of the items with the largest key
MaxFirst(pairs) ==
    pairs[CHOOSE i \in 1..Len(pairs) :
            /\ \A j \in 1..Len(pairs) : ~FloatLess(pairs[i][1], pairs[j][1])
            /\ \A j \in 1..(i - 1) : FloatLess(pairs[j][1], pairs[i][1])]

\* (k, order, elem) < (k2, order2, elem2) on the heap's tuples; order is unique
HeapLess(a, b) == FloatLess(a[1], b[1]) \/ (FloatEq(a[1], b[1]) /\ a[2] < b[2])

HeapMin(heap) == CHOOSE m \in heap : \A e \in heap : e = m \/ HeapLess(m, e)

\* HeapLoop with `top <= k` in place of `top < k`
RECURSIVE HeapLoop_replace_on_tie(_, _, _, _)
HeapLoop_replace_on_tie(heap, order, pairs, i) ==
    IF i > Len(pairs) THEN heap
    ELSE IF ~FloatLess(pairs[i][1], HeapMin(heap)[1])
    THEN HeapLoop_replace_on_tie((heap \ {HeapMin(heap)}) \cup {<<pairs[i][1], order, pairs[i][2]>>},
                                 order - 1, pairs, i + 1)
    ELSE HeapLoop_replace_on_tie(heap, order, pairs, i + 1)

\* the loop of heapq.nlargest over the items after the first n: pairs[i] is
\* offered to the heap, which holds the n largest tuples seen so far
RECURSIVE HeapLoop(_, _, _, _)
HeapLoop(heap, order, pairs, i) ==
    IF i > Len(pairs) THEN heap
    ELSE IF FloatLess(HeapMin(heap)[1], pairs[i][1])
    THEN HeapLoop((heap \ {HeapMin(heap)}) \cup {<<pairs[i][1], order, pairs[i][2]>>},
                  order - 1, pairs, i + 1)
    ELSE HeapLoop(heap, order, pairs, i + 1)

\* result.sort(reverse=True) on the heap's tuples
RECURSIVE HeapSorted(_)
HeapSorted(heap) ==
    IF heap = {} THEN <<>>
    ELSE LET m == CHOOSE x \in heap : \A e \in heap : e = x \/ HeapLess(e, x)
         IN  <<<<m[1], m[3]>>>> \o HeapSorted(heap \ {m})

\* heapq.nlargest(n, iterable, key=...) on <<key, item>> pairs
nlargest(n, pairs) ==
    IF n = 1 THEN (IF pairs = <<>> THEN <<>> ELSE <<MaxFirst(pairs)>>)
    ELSE IF n >= Len(pairs) THEN Take(SortDesc(pairs), n)
    ELSE IF n <= 0 THEN <<>>
    ELSE HeapSorted(HeapLoop({<<pairs[i][1], 1 - i, pairs[i][2]>> : i \in 1..n},
                             0 - n, pairs, n + 1))

\* ProcessCollector_top cutting the list before ordering it
ProcessCollector_top_cut_first(top_n, candidates) ==
    LET n == IF top_n > 0 THEN top_n ELSE Len(candidates)
        cut == Take(candidates, n)
    IN  Items(SortDesc([i \in 1..Len(cut) |-> <<cut[i].cpu_pct, cut[i]>>]))

\* _collect_linux, from `n = ...` on: the top of the candidates by cpu_pct
ProcessCollector_top(top_n, candidates) ==
    Items(nlargest(IF top_n > 0 THEN top_n ELSE Len(candidates),
                   [i \in 1..Len(candidates) |-> <<candidates[i].cpu_pct, candidates[i]>>]))

\* _collect_darwin, from `processes.sort` on
ProcessCollector_top_darwin(top_n, processes) ==
    LET sorted == Items(SortDesc([i \in 1..Len(processes) |-> <<processes[i].cpu_pct, processes[i]>>]))
    IN  IF top_n <= 0 THEN sorted ELSE Take(sorted, top_n)

\* IpTraffic.total_bytes_sec
total_bytes_sec(u) == FloatAdd(u.tx_bytes_sec, u.rx_bytes_sec)

\* ConntrackCollector_top with `usages[:self.top_n]` whatever top_n is
ConntrackCollector_top_always_cut(top_n, usages) ==
    Take(Items(SortDesc([i \in 1..Len(usages) |-> <<total_bytes_sec(usages[i]), usages[i]>>])),
         top_n)

\* ConntrackCollector.collect, from `usages.sort` on
ConntrackCollector_top(top_n, usages) ==
    LET sorted == Items(SortDesc([i \in 1..Len(usages) |-> <<total_bytes_sec(usages[i]), usages[i]>>]))
    IN  IF top_n > 0 THEN Take(sorted, top_n) ELSE sorted

\* --------------------------------------------------------------- process
ProcPids == {101, 102, 103}
ProcStat == {"utime", "stime"}
ProcReadings == Readings(ProcPids, ProcStat)

\* os.sysconf("SC_CLK_TCK")
CLK_TCK == 100

\* the top_n a collector is built with: 0 (show all, as main.py builds the
\* process collector) or the cut MaxTopN
MaxTopN == 2
TopNs == {0, MaxTopN}

\* the pids in the order of os.listdir("/proc"), taken to be ascending
ListedPids(S) ==
    CHOOSE o \in [1..Cardinality(S) -> S] : \A i, j \in 1..Cardinality(S) : i < j => o[i] < o[j]

\* k * x for an integer k and a float x
FloatMul(k, x) == FloatDiv(k * x.num, x.den)

ProcessCollector_init(top_n) == [top_n |-> top_n, prev |-> EmptyMap, prev_time |-> 0]

\* the candidate built for `pid` in the loop over pids
ProcessCollector_candidate(s, curr, inv_dt, pid) ==
    LET stat == curr[pid]
        p == s.prev[pid]
    IN  [pid |-> pid,
         cpu_pct |-> IF FloatLess(Zero, inv_dt) /\ pid \in DOMAIN s.prev
                     THEN FloatMul(stat.utime - p.utime + stat.stime - p.stime, inv_dt)
                     ELSE Zero]

\* ProcessCollector._collect_linux(); os.listdir either fails (an empty list
\* is returned at once) or the stat files of the listed pids give curr.
\* Name, command line, state and RSS of a process are passed through from
\* /proc and are left out of ProcessInfo here.
ProcessCollector_collect ==
    /\ cls = "ProcessCollector" /\ pc = "idle"
    /\ \E now \in Times :
       \E dt \in {IF self.prev_time # 0 THEN now - self.prev_time ELSE 0} :
       \E inv_dt \in {IF dt > 0 THEN FloatDiv(100, dt * CLK_TCK) ELSE Zero} :
         \/ /\ pc' = "returned"
            /\ frame' = [op |-> "collect", now |-> now, curr |-> EmptyMap, dt |-> dt,
                         prev |-> self.prev, prev_time |-> self.prev_time,
                         listed |-> FALSE, candidates |-> <<>>, usages |-> <<>>,
                         divided |-> dt > 0]
            /\ UNCHANGED <<cls, host, self>>
         \/ \E curr \in ProcReadings :
            \E pids \in {ListedPids(DOMAIN curr)} :
            \E candidates \in {[i \in 1..Len(pids) |->
                                  ProcessCollector_candidate(self, curr, inv_dt, pids[i])]} :
              /\ self' = [self EXCEPT !.prev = curr, !.prev_time = now]
              /\ pc' = "returned"
              /\ frame' = [op |-> "collect", now |-> now, curr |-> curr, dt |-> dt,
                           prev |-> self.prev, prev_time |-> self.prev_time,
                           listed |-> TRUE, candidates |-> candidates,
                           usages |-> ProcessCollector_top(self.top_n, candidates),
                           divided |-> dt > 0]
              /\ UNCHANGED <<cls, host>>

\* ------------------------------------------------------------- conntrack
\* the established connections ss can list, in the order it lists them:
\* (local_addr, local_port, remote_addr, remote_port)
ConnOrder ==
    <<<<"10.0.0.2", 40001, "198.51.100.1", 443>>,
      <<"10.0.0.2", 40002, "198.51.100.1", 443>>,
      <<"10.0.0.2", 40003, "203.0.113.9", 443>>>>
ConnKeys == {ConnOrder[i] : i \in 1..Len(ConnOrder)}
ConnStats == {"sent", "recv"}
ConnReadings == Readings(ConnKeys, ConnStats)

ConntrackCollector_init(top_n) == [top_n |-> top_n, prev |-> EmptyMap, prev_time |-> 0]

\* the keys of `current` in dict order
ConnListed(current) == SelectSeq(ConnOrder, LAMBDA k : k \in DOMAIN current)

\* the keys of ip_agg in dict order: the remote addresses of keys[1..n] in
\* the order of their first connection
RECURSIVE AggOrder(_, _)
AggOrder(keys, n) ==
    IF n = 0 THEN <<>>
    ELSE LET before == AggOrder(keys, n - 1)
         IN  IF \E i \in 1..Len(before) : before[i] = keys[n][3] THEN before
             ELSE Append(before, keys[n][3])

Max0Int(x) == IF x > 0 THEN x ELSE 0

\* ip_agg with the deltas of an address clamped as a whole, not one by one
RECURSIVE ip_agg_net(_, _, _, _, _, _)
ip_agg_net(s, current, dt, keys, n, ip) ==
    IF n = 0 THEN <<0, 0, 0>>
    ELSE LET a == ip_agg_net(s, current, dt, keys, n - 1, ip)
             key == keys[n]
             last == \A m \in (n + 1)..Len(keys) : keys[m][3] # ip
             clamp(x) == IF last THEN Max0Int(x) ELSE x
         IN  IF key[3] # ip THEN a
             ELSE IF dt > 0 /\ key \in DOMAIN s.prev
             THEN <<clamp(a[1] + current[key].sent - s.prev[key].sent),
                    clamp(a[2] + current[key].recv - s.prev[key].recv),
                    a[3] + 1>>
             ELSE <<clamp(a[1]), clamp(a[2]), a[3] + 1>>

\* ip_agg[ip] after the loop over keys[1..n]: [tx delta, rx delta, count]
RECURSIVE ip_agg(_, _, _, _, _, _)
ip_agg(s, current, dt, keys, n, ip) ==
    IF n = 0 THEN <<0, 0, 0>>
    ELSE LET a == ip_agg(s, current, dt, keys, n - 1, ip)
             key == keys[n]
         IN  IF key[3] # ip THEN a
             ELSE IF dt > 0 /\ key \in DOMAIN s.prev
             THEN <<a[1] + Max0Int(current[key].sent - s.prev[key].sent),
                    a[2] + Max0Int(current[key].recv - s.prev[key].recv),
                    a[3] + 1>>
             ELSE <<a[1], a[2], a[3] + 1>>

IpTraffic(ip, agg, dt) ==
    [remote_ip |-> ip,
     tx_bytes_sec |-> IF dt > 0 THEN FloatDiv(agg[1], dt) ELSE Zero,
     rx_bytes_sec |-> IF dt > 0 THEN FloatDiv(agg[2], dt) ELSE Zero,
     conn_count |-> agg[3]]

\* ConntrackCollector.collect(); a failed or empty `ss` gives the empty reading
ConntrackCollector_collect ==
    /\ cls = "ConntrackCollector" /\ pc = "idle"
    /\ \E now \in Times, current \in ConnReadings :
       \E dt \in {IF self.prev_time # 0 THEN now - self.prev_time ELSE 0} :
       \E keys \in {ConnListed(current)} :
       \E ips \in {AggOrder(keys, Len(keys))} :
       \E usages \in {[i \in 1..Len(ips) |->
                         IpTraffic(ips[i], ip_agg(self, current, dt, keys, Len(keys), ips[i]), dt)]} :
         /\ self' = [self EXCEPT !.prev = current, !.prev_time = now]
         /\ pc' = "returned"
         /\ frame' = [op |-> "collect", now |-> now, curr |-> current, dt |-> dt,
                      prev |-> self.prev, prev_time |-> self.prev_time,
                      candidates |-> usages,
                      usages |-> ConntrackCollector_top(self.top_n, usages),
                      divided |-> dt > 0 /\ usages # <<>>]
         /\ UNCHANGED <<cls, host>>

\* ------------------------------------------------- top-K on its own
\* The selection stage of the two collectors applied to every short list of
\* candidates: scores 0..MaxScore in every order, top_n from 0 to past the
\* length of the list.
MaxItems == 3
MaxScore == 2

Scores == {FloatDiv(k, 1) : k \in 0..MaxScore}

\* the candidates of _collect_linux with the scores f, in the order listed
ProcCandidates(n, f) == [i \in 1..n |-> [pid |-> 100 + i, cpu_pct |-> f[i]]]

\* the IpTraffic records with the rates f, in the order of ip_agg
ConnCandidates(n, f) ==
    [i \in 1..n |-> [remote_ip |-> i, tx_bytes_sec |-> f[i][1],
                     rx_bytes_sec |-> f[i][2], conn_count |-> 1]]

ProcessCollector_select ==
    /\ cls = "ProcessCollector" /\ pc = "idle"
    /\ \E n \in 0..MaxItems : \E f \in [1..n -> Scores] :
       \E candidates \in {ProcCandidates(n, f)} :
         /\ pc' = "returned"
         /\ frame' = [op |-> "select", candidates |-> candidates,
                      usages |-> ProcessCollector_top(self.top_n, candidates)]
         /\ UNCHANGED <<cls, host, self>>

\* the same candidates as `ps` lists them on macOS
ProcessCollector_select_darwin ==
    /\ cls = "ProcessCollector" /\ pc = "idle"
    /\ \E n \in 0..MaxItems : \E f \in [1..n -> Scores] :
       \E candidates \in {ProcCandidates(n, f)} :
         /\ pc' = "returned"
         /\ frame' = [op |-> "select", candidates |-> candidates,
                      usages |-> ProcessCollector_top_darwin(self.top_n, candidates)]
         /\ UNCHANGED <<cls, host, self>>

ConntrackCollector_select ==
    /\ cls = "ConntrackCollector" /\ pc = "idle"
    /\ \E n \in 0..MaxItems : \E f \in [1..n -> Scores \X Scores] :
       \E candidates \in {ConnCandidates(n, f)} :
         /\ pc' = "returned"
         /\ frame' = [op |-> "select", candidates |-> candidates,
                      usages |-> ConntrackCollector_top(self.top_n, candidates)]
         /\ UNCHANGED <<cls, host, self>>

InitTopK ==
    /\ pc = "idle"
    /\ frame = idle
    /\ host = EmptyMap
    /\ \E top_n \in 0..(MaxItems + 1) :
         \/ cls = "ProcessCollector" /\ self = ProcessCollector_init(top_n)
         \/ cls = "ConntrackCollector" /\ self = ConntrackCollector_init(top_n)

NextTopK ==
    \/ ProcessCollector_select
    \/ ProcessCollector_select_darwin
    \/ ConntrackCollector_select
    \/ render

SpecTopK == InitTopK /\ [][NextTopK]_vars

\* ------------------------------------------------------------ the system
Init ==
    /\ pc = "idle"
    /\ frame = idle
    /\ \/ cls = "DiskCollector" /\ host \in DiskHosts /\ self = DiskCollector_init(host)
       \/ cls = "NetworkCollector" /\ host \in NetHosts /\ self = NetworkCollector_init(host)
       \/ cls = "KernelCollector" /\ host = EmptyMap /\ self = KernelCollector_init
       \/ cls = "NfsMountCollector" /\ host = EmptyMap /\ self = NfsMountCollector_init
       \/ cls = "CpuCollector" /\ host = EmptyMap /\ self = CpuCollector_init
       \/ /\ cls = "ProcessCollector" /\ host = EmptyMap
          /\ \E top_n \in TopNs : self = ProcessCollector_init(top_n)
       \/ /\ cls = "ConntrackCollector" /\ host = EmptyMap
          /\ \E top_n \in TopNs : self = ConntrackCollector_init(top_n)

Next ==
    \/ DiskCollector_collect
    \/ NetworkCollector_collect
    \/ KernelCollector_collect
    \/ NfsMountCollector_collect
    \/ CpuCollector_collect
    \/ ProcessCollector_collect
    \/ ConntrackCollector_collect
    \/ render

Spec == Init /\ [][Next]_vars

\* ============================================================ properties
\* collect() of one of the classes in C has just returned
Returned(C) == pc = "returned" /\ frame.op = "collect" /\ cls \in C

\* the counters of a reading and the rate each one feeds
DiskRates ==
    {<<"rd_sectors", "read_bytes_sec">>, <<"wr_sectors", "write_bytes_sec">>,
     <<"rd_ios", "read_iops">>, <<"wr_ios", "write_iops">>}
NetRates == {<<"rx_bytes", "rx_bytes_sec">>, <<"tx_bytes", "tx_bytes_sec">>}
Rates == IF cls = "DiskCollector" THEN DiskRates ELSE NetRates

\* the rate fields of the records a collector returns
RateFields ==
    CASE cls = "DiskCollector" -> {"read_bytes_sec", "write_bytes_sec", "read_iops", "write_iops"}
      [] cls = "NetworkCollector" -> {"rx_bytes_sec", "tx_bytes_sec"}
      [] cls = "NfsMountCollector" -> {"read_bytes_sec", "write_bytes_sec", "read_iops", "write_iops"}
      [] cls = "ConntrackCollector" -> {"tx_bytes_sec", "rx_bytes_sec"}

AllZero(u) == \A f \in RateFields : IsZero(u[f])

\* C1 (reset clamp): when collect() of the disk or the network collector
\* returns with dt > 0, no rate is negative, and the rate fed by a counter
\* that is lower than its stored previous value is exactly 0.0.
C1_ResetClamp ==
    (Returned({"DiskCollector", "NetworkCollector"}) /\ frame.dt > 0) =>
        \A i \in 1..Len(frame.usages) : \A p \in Rates :
            LET u == frame.usages[i]
            IN  /\ ~IsNegative(u[p[2]])
                /\ (u.name \in DOMAIN frame.prev
                    /\ frame.curr[u.name][p[1]] < frame.prev[u.name][p[1]])
                   => IsZero(u[p[2]])

\* C2 (zero on first sample): the first collect() of the disk, the network
\* and the kernel collector (nothing stored yet, stored time 0) returns 0.0
\* for every rate of every key of the reading and takes no dividing branch.
C2_ZeroOnFirstSample ==
    (Returned({"DiskCollector", "NetworkCollector", "KernelCollector"}) /\ frame.prev_time = 0) =>
        /\ ~frame.divided
        /\ cls = "KernelCollector" =>
             IsZero(frame.info.ctx_switches_sec) /\ IsZero(frame.info.interrupts_sec)
        /\ cls # "KernelCollector" =>
             /\ {frame.usages[i].name : i \in 1..Len(frame.usages)} = DOMAIN frame.curr
             /\ \A i \in 1..Len(frame.usages) : AllZero(frame.usages[i])

\* a first collect() of the kernel collector that read counters above zero
C2_FirstSample ==
    /\ Returned({"KernelCollector"}) /\ frame.prev_time = 0
    /\ "stat" \in DOMAIN frame.curr
    /\ frame.curr["stat"].ctxt > 0 /\ frame.curr["stat"].intr > 0

\* C3 (snapshot store lifecycle): after every collect() of the disk and of
\* the NFS mount collector, an empty reading included, the stored snapshot
\* is that call's reading and the stored time is that call's time.
C3_StoreReplaced ==
    Returned({"DiskCollector", "NfsMountCollector"}) =>
        /\ self.prev_time = frame.now
        /\ self.prev = IF cls = "DiskCollector" THEN frame.curr ELSE NfsSnapshot(frame.curr)

\* C4 (appearance and disappearance): the disk and the network collector
\* return one record for each key of the current reading and for no other
\* name; a key absent from the reading stored before has every rate 0.0; a
\* key only in the reading stored before has no record.
C4_AppearDisappear ==
    Returned({"DiskCollector", "NetworkCollector"}) =>
        /\ Len(frame.usages) = Cardinality(DOMAIN frame.curr)
        /\ {frame.usages[i].name : i \in 1..Len(frame.usages)} = DOMAIN frame.curr
        /\ \A i \in 1..Len(frame.usages) :
             frame.usages[i].name \notin DOMAIN frame.prev => AllZero(frame.usages[i])
        /\ \A n \in DOMAIN frame.prev \ DOMAIN frame.curr :
             \A i \in 1..Len(frame.usages) : frame.usages[i].name # n

\* a later collect() with dt > 0 in which sda, with counters above zero, is
\* new, sdb has gone, and the reading before held sdb only
C4_Appeared ==
    /\ Returned({"DiskCollector"}) /\ frame.dt > 0
    /\ DOMAIN frame.prev = {"sdb"} /\ DOMAIN frame.curr = {"sda"}
    /\ frame.curr["sda"].rd_sectors > 0

\* C5 (non-positive dt): when dt is 0 or negative the disk, network, NFS
\* mount and conntrack collectors return 0.0 for every rate and take no
\* branch that divides by dt.
C5_NonPositiveDt ==
    (Returned({"DiskCollector", "NetworkCollector", "NfsMountCollector", "ConntrackCollector"})
     /\ frame.dt <= 0) =>
        /\ ~frame.divided
        /\ \A i \in 1..Len(frame.usages) : AllZero(frame.usages[i])
        /\ cls = "ConntrackCollector" =>
             \A i \in 1..Len(frame.candidates) : AllZero(frame.candidates[i])

\* a collect() of the network collector whose clock reads earlier than the
\* stored time while a counter of eth0 has moved
C5_ClockWentBack ==
    /\ Returned({"NetworkCollector"})
    /\ frame.prev_time # 0 /\ frame.now < frame.prev_time
    /\ "eth0" \in DOMAIN frame.prev /\ "eth0" \in DOMAIN frame.curr
    /\ frame.curr["eth0"].rx_bytes # frame.prev["eth0"].rx_bytes

\* the percentages of a CpuUsage, total_pct included
CpuPcts(u) ==
    {u.user_pct, u.nice_pct, u.system_pct, u.iowait_pct, u.irq_pct, u.steal_pct,
     u.idle_pct, total_pct(u)}

\* C6 (CPU output guarantee): every percentage of every CpuUsage returned
\* is finite and not negative.
C6_CpuOutput ==
    Returned({"CpuCollector"}) =>
        \A i \in 1..Len(frame.usages) : \A x \in CpuPcts(frame.usages[i]) :
            IsFinite(x) /\ ~IsNegative(x)

\* C7 (process restart as reset): no cpu_pct is negative, and a pid whose
\* utime + stime is below the stored one has cpu_pct 0.0.
C7_RestartClamp ==
    (Returned({"ProcessCollector"}) /\ frame.listed) =>
        \A i \in 1..Len(frame.candidates) :
            LET c == frame.candidates[i]
            IN  /\ ~IsNegative(c.cpu_pct)
                /\ (c.pid \in DOMAIN frame.prev
                    /\ frame.curr[c.pid].utime + frame.curr[c.pid].stime
                         < frame.prev[c.pid].utime + frame.prev[c.pid].stime)
                   => IsZero(c.cpu_pct)

\* the selection stage has just returned
Selected == pc = "returned" /\ frame.op = "select"

\* the score the collector orders by
Score(x) == IF cls = "ProcessCollector" THEN x.cpu_pct ELSE total_bytes_sec(x)

\* where a candidate stands in the list the selection was given
Pos(x) == CHOOSE i \in 1..Len(frame.candidates) : frame.candidates[i] = x

Chosen == {frame.usages[i] : i \in 1..Len(frame.usages)}
Offered == {frame.candidates[i] : i \in 1..Len(frame.candidates)}

NonIncreasing ==
    \A i, j \in 1..Len(frame.usages) :
        i < j => ~FloatLess(Score(frame.usages[i]), Score(frame.usages[j]))

\* C8 (top-K correctness): with 0 < top_n <= N both selections return
\* exactly top_n of the candidates, no one twice, in non-increasing order of
\* score, and no candidate left out scores above one returned: the scores
\* returned are those of the full descending sort cut at top_n.
C8_TopK ==
    (Selected /\ self.top_n > 0 /\ self.top_n <= Len(frame.candidates)) =>
        /\ Len(frame.usages) = self.top_n
        /\ Cardinality(Chosen) = self.top_n
        /\ Chosen \subseteq Offered
        /\ NonIncreasing
        /\ \A c \in Offered \ Chosen : \A u \in Chosen : ~FloatLess(Score(u), Score(c))

\* the heap at work: two of three processes wanted, listed by rising score
C8_HeapReplaced ==
    /\ Selected /\ cls = "ProcessCollector"
    /\ self.top_n = 2 /\ Len(frame.candidates) = 3
    /\ FloatLess(Score(frame.candidates[1]), Score(frame.candidates[2]))
    /\ FloatLess(Score(frame.candidates[2]), Score(frame.candidates[3]))

\* C9 (top-K boundary): with top_n = 0 or top_n >= N both selections return
\* every candidate, once, in non-increasing order of score.
C9_TopKBoundary ==
    (Selected /\ (self.top_n = 0 \/ self.top_n >= Len(frame.candidates))) =>
        /\ Len(frame.usages) = Len(frame.candidates)
        /\ Chosen = Offered
        /\ NonIncreasing

\* top_n = 0 on three addresses listed by rising traffic
C9_ShowAll ==
    /\ Selected /\ cls = "ConntrackCollector"
    /\ self.top_n = 0 /\ Len(frame.candidates) = 3
    /\ FloatLess(Score(frame.candidates[1]), Score(frame.candidates[2]))
    /\ FloatLess(Score(frame.candidates[2]), Score(frame.candidates[3]))

\* C10 (stable tie-break): candidates of equal score are returned in the
\* order they were listed in, and a candidate left out never stands before a
\* returned candidate of the same score.
C10_StableTies ==
    Selected =>
        /\ \A i, j \in 1..Len(frame.usages) :
             (i < j /\ FloatEq(Score(frame.usages[i]), Score(frame.usages[j])))
                => Pos(frame.usages[i]) < Pos(frame.usages[j])
        /\ \A c \in Offered \ Chosen : \A u \in Chosen :
             FloatEq(Score(u), Score(c)) => Pos(u) < Pos(c)

\* a tie across the cut on the heap path: two of three processes wanted, the
\* second and the third with the same score, below the first
C10_TieAtCut ==
    /\ Selected /\ cls = "ProcessCollector"
    /\ self.top_n = 2 /\ Len(frame.candidates) = 3 /\ Len(frame.usages) = 2
    /\ FloatEq(Score(frame.candidates[2]), Score(frame.candidates[3]))
    /\ FloatLess(Score(frame.candidates[2]), Score(frame.candidates[1]))

\* ========================================================== peak tracker
\* The auto-scale of the disk, network, NFS and PCIe sections: one float per
\* section, kept by the curses renderer and by the GUI with the same code.
\* A behaviour follows the tracker of one section of one of the two.
MaxUpdates == 3
MaxObs == 2
MaxDevs == 1

\* the literal 1_000.0
Floor == FloatDiv(1000, 1)

\* the rates a device can show: a negative one, zero, one below the floor
\* and MaxObs above it
Observations == {FloatDiv(k * 4000, 1) : k \in (0 - 1)..MaxObs} \cup {FloatDiv(500, 1)}

\* max(a, b) on floats
FloatMax(a, b) == IF FloatLess(a, b) THEN b ELSE a

\* max((x for ...), default=0)
RECURSIVE MaxOf(_)
MaxOf(xs) ==
    IF xs = <<>> THEN Zero
    ELSE IF Len(xs) = 1 THEN xs[1]
    ELSE FloatMax(xs[1], MaxOf(Tail(xs)))

\* cur_peak = max(max(reads, default=0), max(writes, default=0))
cur_peak(devs) ==
    FloatMax(MaxOf([i \in 1..Len(devs) |-> devs[i].rd]),
             MaxOf([i \in 1..Len(devs) |-> devs[i].wr]))

\* x * 0.95 and x * 1.2
Decayed(x) == FloatDiv(x.num * 19, x.den * 20)
Scale(x) == FloatDiv(x.num * 6, x.den * 5)

\* the update with the floor left out of the max
peak_update_no_floor(peak, cur) ==
    IF FloatLess(peak, cur) THEN cur ELSE FloatMax(Decayed(peak), cur)

\* the update moving half way towards a higher observation
peak_update_smoothed(peak, cur) ==
    IF FloatLess(peak, cur) THEN FloatDiv(peak.num * cur.den + cur.num * peak.den,
                                          2 * peak.den * cur.den)
    ELSE FloatMax(FloatMax(Decayed(peak), cur), Floor)

\* the update holding the peak where the code lets it decay
peak_update_hold(peak, cur) ==
    IF FloatLess(peak, cur) THEN cur
    ELSE FloatMax(FloatMax(peak, cur), Floor)

\* if cur_peak > self._peak: self._peak = cur_peak
\* else: self._peak = max(self._peak * 0.95, cur_peak, 1_000.0)
peak_update(peak, cur) ==
    IF FloatLess(peak, cur) THEN cur
    ELSE FloatMax(FloatMax(Decayed(peak), cur), Floor)

\* Renderer.__init__ / HousekeeperGui.__init__: every peak starts at the floor
Tracker_init == [peak |-> Floor]

\* what the caller has seen of the tracker so far: the number of updates,
\* the last update's old peak and observation, the last observation that
\* raised the peak and the number of zero observations since (tracked while
\* nothing else was observed), and whether every observation so far was
\* above the one before, the first above the floor
NoUpdate ==
    [op |-> "draw", updates |-> 0, updated |-> FALSE, old |-> Floor, cur |-> Zero,
     scale |-> Scale(Floor), spike |-> Floor, zeros |-> 0, tracked |-> TRUE,
     rising |-> TRUE]

\* the section is drawn for devs; `update` tells whether the tracker's lines
\* are reached
Tracker_draw(devs, update) ==
    /\ frame.updates < MaxUpdates
    /\ \E cur \in {cur_peak(devs)} :
       \E new \in {IF update THEN peak_update(self.peak, cur) ELSE self.peak} :
         /\ self' = [self EXCEPT !.peak = new]
         /\ frame' = IF ~update THEN [frame EXCEPT !.updated = FALSE, !.scale = Scale(new)]
                     ELSE [op |-> "draw", updates |-> frame.updates + 1, updated |-> TRUE,
                           old |-> self.peak, cur |-> cur, scale |-> Scale(new),
                           spike |-> IF FloatLess(self.peak, cur) THEN cur ELSE frame.spike,
                           zeros |-> IF FloatLess(self.peak, cur) THEN 0 ELSE frame.zeros + 1,
                           tracked |-> FloatLess(self.peak, cur) \/ (frame.tracked /\ IsZero(cur)),
                           rising |-> frame.rising
                                      /\ FloatLess(IF frame.updates = 0 THEN Floor ELSE frame.cur, cur)]
         /\ UNCHANGED <<cls, host, pc>>

\* the lists a section can be given: up to MaxDevs devices, each with a read
\* and a write rate and (PCIe) with or without an I/O label
Devs(n, f) == [i \in 1..n |-> [rd |-> f[i][1], wr |-> f[i][2], io_label |-> f[i][3]]]

io_devs(devs) == SelectSeq(devs, LAMBDA d : d.io_label)

\* Renderer._render_disks, _render_networks, _render_nfs: the tracker is
\* updated whatever the list holds
Renderer_render_rates ==
    /\ cls = "Renderer" /\ host \in {"disk", "net", "nfs"}
    /\ \E n \in 0..MaxDevs : \E f \in [1..n -> Observations \X Observations \X {TRUE}] :
         Tracker_draw(Devs(n, f), TRUE)

\* Renderer._render_pcie: updated when a device has an I/O label
Renderer_render_pcie ==
    /\ cls = "Renderer" /\ host = "pcie"
    /\ \E n \in 0..MaxDevs : \E f \in [1..n -> Observations \X Observations \X BOOLEAN] :
         Tracker_draw(io_devs(Devs(n, f)), io_devs(Devs(n, f)) # <<>>)

\* HousekeeperGui._draw, disk, network and NFS sections: skipped on no data
HousekeeperGui_draw_rates ==
    /\ cls = "HousekeeperGui" /\ host \in {"disk", "net", "nfs"}
    /\ \E n \in 0..MaxDevs : \E f \in [1..n -> Observations \X Observations \X {TRUE}] :
         Tracker_draw(Devs(n, f), n > 0)

\* HousekeeperGui._draw, PCIe section
HousekeeperGui_draw_pcie ==
    /\ cls = "HousekeeperGui" /\ host = "pcie"
    /\ \E n \in 0..MaxDevs : \E f \in [1..n -> Observations \X Observations \X BOOLEAN] :
         Tracker_draw(io_devs(Devs(n, f)), io_devs(Devs(n, f)) # <<>>)

InitPeak ==
    /\ cls \in {"Renderer", "HousekeeperGui"}
    /\ host \in {"disk", "net", "nfs", "pcie"}
    /\ self = Tracker_init
    /\ pc = "idle"
    /\ frame = NoUpdate

NextPeak ==
    \/ Renderer_render_rates
    \/ Renderer_render_pcie
    \/ HousekeeperGui_draw_rates
    \/ HousekeeperGui_draw_pcie

SpecPeak == InitPeak /\ [][NextPeak]_vars

\* x * 0.95^n
RECURSIVE DecayedBy(_, _)
DecayedBy(x, n) == IF n = 0 THEN x ELSE Decayed(DecayedBy(x, n - 1))

\* C11 (decay-down safety): after every update the peak is at least the
\* floor and at least the observation; when the observation did not exceed
\* the old peak the new peak is max(0.95 * old, observation, floor); after a
\* raising observation followed by n zero observations the peak is
\* max(spike * 0.95^n, floor); and the scale peak * 1.2 is always positive.
C11_DecayDown ==
    (frame.op = "draw") =>
        /\ FloatLess(Zero, frame.scale) /\ frame.scale = Scale(self.peak)
        /\ ~FloatLess(self.peak, Floor)
        /\ frame.updated =>
             /\ ~FloatLess(self.peak, frame.cur)
             /\ ~FloatLess(frame.old, frame.cur) =>
                  \A m \in {Decayed(frame.old), frame.cur, Floor} :
                      /\ ~FloatLess(self.peak, m)
                      /\ self.peak \in {Decayed(frame.old), frame.cur, Floor}
             /\ (frame.tracked /\ frame.zeros > 0) =>
                  self.peak = FloatMax(DecayedBy(frame.spike, frame.zeros), Floor)

\* a spike of 8000 followed by two zero observations: the peak stands at
\* 8000 * 0.95^2 = 7220
C11_Decaying ==
    /\ frame.op = "draw" /\ frame.updated /\ frame.tracked
    /\ frame.spike = FloatDiv(8000, 1) /\ frame.zeros = 2 /\ IsZero(frame.cur)
    /\ self.peak = FloatDiv(7220, 1)

\* C12 (monotone-up): an observation above the stored peak becomes the peak
\* in that update; while every observation is above the one before, the
\* first above the floor, the peak is the latest observation.
C12_MonotoneUp ==
    (frame.op = "draw" /\ frame.updated) =>
        /\ FloatLess(frame.old, frame.cur) => self.peak = frame.cur
        /\ frame.rising => self.peak = frame.cur

\* two rising observations, 4000 then 8000
C12_Rising ==
    /\ frame.op = "draw" /\ frame.updated /\ frame.rising /\ frame.updates = 2
    /\ frame.old = FloatDiv(4000, 1) /\ frame.cur = FloatDiv(8000, 1)

\* the change of a jiffy counter, and of the eight counters together,
\* between the reading stored before and the current one
Delta(name, f) == frame.curr[name][f] - frame.prev[name][f]
DeltaAll(name) ==
    Delta(name, "user") + Delta(name, "nice") + Delta(name, "system") + Delta(name, "idle")
    + Delta(name, "iowait") + Delta(name, "irq") + Delta(name, "softirq") + Delta(name, "steal")

\* C13 (CPU percentages are ratios of counter deltas): for a label read
\* before and now with a non-zero change of total jiffies, user_pct is
\* 100 * (user change) / (total change) and system_pct likewise, computed
\* from the two readings alone; cpu0 going from user 1000, system 200,
\* idle 8800 to user 1050, system 210, idle 8840 shows 50, 10 and 40.
C13_DeltaRatio ==
    Returned({"CpuCollector"}) =>
        /\ \A i \in 1..Len(frame.usages) :
             LET u == frame.usages[i]
             IN  (u.label \in DOMAIN frame.prev /\ DeltaAll(u.label) # 0) =>
                    /\ u.user_pct = FloatDiv(100 * Delta(u.label, "user"), DeltaAll(u.label))
                    /\ u.system_pct = FloatDiv(100 * Delta(u.label, "system"), DeltaAll(u.label))
        /\ (frame.prev = CpuBefore /\ frame.curr = CpuAfter) =>
             /\ Len(frame.usages) = 1
             /\ frame.usages[1].label = "cpu0"
             /\ frame.usages[1].user_pct = FloatDiv(50, 1)
             /\ frame.usages[1].system_pct = FloatDiv(10, 1)
             /\ frame.usages[1].idle_pct = FloatDiv(40, 1)

\* the two readings of cpu0, one after the other
C13_Cpu0 == Returned({"CpuCollector"}) /\ frame.prev = CpuBefore /\ frame.curr = CpuAfter

\* C14 (upstream failure never raises): collect() of the disk, network and
\* CPU collector never ends by raising; an unreadable /proc file gives an
\* empty result for the cycle.
C14_NoRaise ==
    (cls \in {"DiskCollector", "NetworkCollector", "CpuCollector"}) => pc # "raised"

\* ================================================ temperature: IPMI
\* TemperatureCollector with its background thread.  The main thread runs
\* collect() and in it _collect_ipmi() one statement at a time; a worker runs
\* ipmitool, parses and publishes.  The two share the object's fields and no
\* lock.  self.threads lists the Thread objects ever started, the last of
\* them being self._ipmi_thread; self.ipmi_pending is <<>> for None.
MaxWorkers == 2

\* the values of time.monotonic() a collect() can read
IpmiTimes == {k * TimeStep : k \in 1..(MaxTicks + 1)}

\* what ipmitool's table parses to: no device, or the motherboard's sensors
IpmiDevices == {<<>>, <<"MB">>}

TemperatureCollector_init ==
    [layout_set |-> FALSE, layout_tick |-> 0,
     cache_set |-> FALSE, cache |-> <<>>, cache_time |-> 0,
     has_ipmi |-> "None", ipmi_cmd |-> FALSE,
     ipmi_cache |-> [by |-> 0, devices |-> <<>>], ipmi_cache_time |-> 0,
     threads |-> <<>>, ipmi_pending |-> <<>>]

\* Thread.is_alive() of the k-th thread started
is_alive(s, k) == s.threads[k].state # "dead"

\* the test of line 389 with the is_alive() half left out
start_worker_always(s) == TRUE

\* self._ipmi_thread is None or not self._ipmi_thread.is_alive()
start_worker(s) == s.threads = <<>> \/ ~is_alive(s, Len(s.threads))

\* what has been observed of the mailbox: the results published, those taken
\* into _ipmi_cache, those that left the slot without being taken; and of
\* the last return of collect(): its value, the path taken and whether a
\* worker was alive
NoCall ==
    [op |-> "collect", now |-> 0, result |-> <<>>, via |-> "none", alive |-> FALSE,
     published |-> {}, accepted |-> {}, lost |-> {}]

\* collect() returns value
Return(s, value, via) ==
    /\ pc' = "idle"
    /\ frame' = [frame EXCEPT !.result = value, !.via = via,
                              !.alive = \E k \in 1..Len(s.threads) : is_alive(s, k)]

\* the test of the 5 s cache never passing
cached_never(s, now) == FALSE

\* self._cache is not None and now - self._cache_time < 5.0
cached(s, now) == s.cache_set /\ now - s.cache_time < 5

\* the layout is discovered on the first cycle and every 30 cycles, and the
\* cycle is counted
layout(s) ==
    [s EXCEPT !.layout_set = TRUE,
              !.layout_tick = (IF ~s.layout_set \/ s.layout_tick >= 30 THEN 0 ELSE @) + 1]

\* collect() up to the call of _collect_ipmi and the test of _has_ipmi in
\* it; the hwmon sensors read in between are left out of the result
TemperatureCollector_collect ==
    /\ cls = "TemperatureCollector" /\ pc = "idle"
    /\ \E now \in IpmiTimes :
         /\ now >= frame.now
         /\ IF cached(self, now)
            THEN /\ pc' = "idle"
                 /\ frame' = [frame EXCEPT !.now = now, !.result = self.cache, !.via = "cache",
                                !.alive = \E k \in 1..Len(self.threads) : is_alive(self, k)]
                 /\ self' = self
            ELSE \E has \in {IF self.has_ipmi = "None"
                             THEN (IF host.ipmitool THEN "True" ELSE "False")
                             ELSE self.has_ipmi} :
                   IF has = "False"
                   THEN /\ self' = [layout(self) EXCEPT !.has_ipmi = has, !.cache_set = TRUE,
                                                        !.cache = <<>>, !.cache_time = now]
                        /\ pc' = "idle"
                        /\ frame' = [frame EXCEPT !.now = now, !.result = <<>>, !.via = "no_ipmi",
                                       !.alive = \E k \in 1..Len(self.threads) : is_alive(self, k)]
                   ELSE /\ self' = [layout(self) EXCEPT !.has_ipmi = has]
                        /\ pc' = "check_pending"
                        /\ frame' = [frame EXCEPT !.now = now]
    /\ UNCHANGED <<cls, host>>

\* if self._ipmi_pending is not None:
TemperatureCollector_check_pending ==
    /\ cls = "TemperatureCollector" /\ pc = "check_pending"
    /\ pc' = IF self.ipmi_pending # <<>> THEN "take" ELSE "check_cache"
    /\ UNCHANGED <<cls, host, self, frame>>

\* self._ipmi_cache = self._ipmi_pending
TemperatureCollector_take ==
    /\ cls = "TemperatureCollector" /\ pc = "take"
    /\ self' = [self EXCEPT !.ipmi_cache = self.ipmi_pending[1]]
    /\ frame' = [frame EXCEPT !.accepted = @ \cup {self.ipmi_pending[1].by}]
    /\ pc' = "stamp"
    /\ UNCHANGED <<cls, host>>

\* self._ipmi_cache_time = now
TemperatureCollector_stamp ==
    /\ cls = "TemperatureCollector" /\ pc = "stamp"
    /\ self' = [self EXCEPT !.ipmi_cache_time = frame.now]
    /\ pc' = "clear"
    /\ UNCHANGED <<cls, host, frame>>

\* self._ipmi_pending = None
TemperatureCollector_clear ==
    /\ cls = "TemperatureCollector" /\ pc = "clear"
    /\ self' = [self EXCEPT !.ipmi_pending = <<>>]
    /\ frame' = [frame EXCEPT !.lost = @ \cup ({self.ipmi_pending[1].by} \ frame.accepted)]
    /\ pc' = "check_cache"
    /\ UNCHANGED <<cls, host>>

\* the end of collect() once _collect_ipmi has returned devs
Finish(s, devs, via) ==
    /\ self' = [s EXCEPT !.cache_set = TRUE, !.cache = devs, !.cache_time = frame.now]
    /\ Return(s, devs, via)

\* if self._ipmi_cache and now - self._ipmi_cache_time < 10.0: return it
TemperatureCollector_check_cache ==
    /\ cls = "TemperatureCollector" /\ pc = "check_cache"
    /\ IF self.ipmi_cache.devices # <<>> /\ frame.now - self.ipmi_cache_time < 10
       THEN Finish(self, self.ipmi_cache.devices, "fresh")
       ELSE pc' = "check_thread" /\ UNCHANGED <<self, frame>>
    /\ UNCHANGED <<cls, host>>

\* the thread is started unless one is alive
TemperatureCollector_check_thread ==
    /\ cls = "TemperatureCollector" /\ pc = "check_thread"
    /\ IF start_worker(self) /\ Len(self.threads) < MaxWorkers
       THEN self' = [self EXCEPT !.threads = Append(@, [state |-> "running", devices |-> <<>>])]
       ELSE self' = self
    /\ pc' = "return_cache"
    /\ UNCHANGED <<cls, host, frame>>

\* return self._ipmi_cache
TemperatureCollector_return_cache ==
    /\ cls = "TemperatureCollector" /\ pc = "return_cache"
    /\ Finish(self, self.ipmi_cache.devices, "stale")
    /\ UNCHANGED <<cls, host>>

\* _ipmi_worker up to the parse: ipmitool is found and answers (devices are
\* parsed), or it is not found on the first run (_has_ipmi = False), or it
\* fails on a later run; in the last two cases the worker returns
ipmi_worker_run(k) ==
    /\ cls = "TemperatureCollector"
    /\ k \in 1..Len(self.threads) /\ self.threads[k].state = "running"
    /\ \/ \E devices \in IpmiDevices :
            self' = [self EXCEPT !.ipmi_cmd = TRUE,
                                 !.threads[k] = [state |-> "parsed", devices |-> devices]]
       \/ self' = [self EXCEPT !.has_ipmi = IF self.ipmi_cmd THEN @ ELSE "False",
                               !.threads[k].state = "dead"]
    /\ UNCHANGED <<cls, host, pc, frame>>

\* self._ipmi_pending = devices
ipmi_worker_publish(k) ==
    /\ cls = "TemperatureCollector"
    /\ k \in 1..Len(self.threads) /\ self.threads[k].state = "parsed"
    /\ self' = [self EXCEPT !.ipmi_pending = <<[by |-> k, devices |-> self.threads[k].devices]>>,
                            !.threads[k].state = "published"]
    /\ frame' = [frame EXCEPT
                   !.published = @ \cup {k},
                   !.lost = @ \cup (IF self.ipmi_pending = <<>> THEN {}
                                    ELSE {self.ipmi_pending[1].by} \ frame.accepted)]
    /\ UNCHANGED <<cls, host, pc>>

\* the thread ends
ipmi_worker_exit(k) ==
    /\ cls = "TemperatureCollector"
    /\ k \in 1..Len(self.threads) /\ self.threads[k].state = "published"
    /\ self' = [self EXCEPT !.threads[k].state = "dead"]
    /\ UNCHANGED <<cls, host, pc, frame>>

\* the statements of the main thread
TemperatureCollector_main ==
    \/ TemperatureCollector_collect
    \/ TemperatureCollector_check_pending
    \/ TemperatureCollector_take
    \/ TemperatureCollector_stamp
    \/ TemperatureCollector_clear
    \/ TemperatureCollector_check_cache
    \/ TemperatureCollector_check_thread
    \/ TemperatureCollector_return_cache

InitIpmi ==
    /\ cls = "TemperatureCollector"
    /\ host \in [ipmitool : BOOLEAN]
    /\ self = TemperatureCollector_init
    /\ pc = "idle"
    /\ frame = NoCall

NextIpmi ==
    \/ TemperatureCollector_collect
    \/ TemperatureCollector_check_pending
    \/ TemperatureCollector_take
    \/ TemperatureCollector_stamp
    \/ TemperatureCollector_clear
    \/ TemperatureCollector_check_cache
    \/ TemperatureCollector_check_thread
    \/ TemperatureCollector_return_cache
    \/ \E k \in 1..MaxWorkers : ipmi_worker_run(k)
    \/ \E k \in 1..MaxWorkers : ipmi_worker_publish(k)
    \/ \E k \in 1..MaxWorkers : ipmi_worker_exit(k)

SpecIpmi == InitIpmi /\ [][NextIpmi]_vars

\* C15 (the mailbox loses nothing): no result published to _ipmi_pending
\* leaves the slot, overwritten by a worker or cleared by the main thread,
\* without having been taken into _ipmi_cache.
C15_NothingLost ==
    (cls = "TemperatureCollector") => frame.lost = {}

\* the workers alive
Alive == {k \in 1..Len(self.threads) : is_alive(self, k)}

\* C16 (one worker, polled without waiting): at most one worker is alive;
\* whatever the workers do, the main thread's next statement can run; and
\* a collect() that went through _collect_ipmi returned _ipmi_cache, which
\* holds the last result taken (nothing before the first).
C16_SingleWorker ==
    (cls = "TemperatureCollector") =>
        /\ Cardinality(Alive) <= 1
        /\ pc # "idle" => ENABLED TemperatureCollector_main
        /\ (pc = "idle" /\ frame.via \in {"fresh", "stale"}) =>
              frame.result = self.ipmi_cache.devices
        /\ self.ipmi_cache.by \in frame.accepted \cup {0}
        /\ self.ipmi_cache.by = 0 => self.ipmi_cache.devices = <<>>

\* collect() has returned the cache while the second worker, started after
\* the first had ended, was running
C16_WorkerRunning ==
    /\ cls = "TemperatureCollector" /\ pc = "idle"
    /\ frame.via = "stale" /\ frame.alive
    /\ Len(self.threads) = 2 /\ Alive = {2}

\* ====================================================== GUI: _update
\* One frame of HousekeeperGui._update: the collectors called and the data
\* handed to _draw.  What a collector returns is told apart by the number of
\* the frame it was called in; 0 stands for the empty list a cache starts
\* with.  The clock is read in whole seconds.
MaxFrames == 3
MaxClock == 8

Fast == <<"cpu", "mem", "disk", "net", "kern">>
Slow == {"proc", "nvidia", "amd", "gaudi", "gpu_proc", "nfs"}
VerySlow == {"pcie", "temp"}

\* the collectors whose Linux reader can raise out of collect()
Raising == {"cpu", "disk", "net"}

\* the optional collectors a host has: none of them, or all
GuiHosts == {{}, {"nvidia", "amd", "gaudi", "gpu_proc", "nfs", "pcie"}}

\* the caches before the first frame (hasattr is false: they are created
\* with time 0.0 and empty lists)
HousekeeperGui_init ==
    [slow_cache_time |-> 0, slow |-> [c \in Slow |-> 0],
     vslow_cache_time |-> 0, vslow |-> [c \in VerySlow |-> 0]]

\* self.x_col is not None
Present(c) == c \in {"proc", "temp"} \cup host

NoFrame ==
    [op |-> "update", n |-> 0, now |-> 0, invoked |-> {}, data |-> [c \in {} |-> 0],
     before |-> HousekeeperGui_init, called_at |-> [c \in {} |-> 0],
     last_called |-> [c \in {} |-> 0]]

\* now_mono - self._slow_cache_time >= 3.0
slow_due(s, now_mono) == now_mono - s.slow_cache_time >= 3

\* now_mono - self._vslow_cache_time >= 5.0
vslow_due(s, now_mono) == now_mono - s.vslow_cache_time >= 5

\* _update(): `stop` is the number of fast collectors that returned before
\* one raised (all of them: the frame goes on to the caches and to _draw)
HousekeeperGui_update ==
    /\ cls = "HousekeeperGui" /\ pc = "idle" /\ frame.n < MaxFrames
    /\ \E now_mono \in 0..MaxClock : \E stop \in 0..Len(Fast) :
         /\ now_mono >= frame.now
         /\ stop < Len(Fast) => Fast[stop + 1] \in Raising
         /\ \E n \in {frame.n + 1} :
            \E fast \in {{Fast[i] : i \in 1..(IF stop < Len(Fast) THEN stop + 1 ELSE stop)}} :
              IF stop < Len(Fast)
              THEN /\ pc' = "raised"
                   /\ self' = self
                   /\ frame' = [frame EXCEPT !.n = n, !.now = now_mono, !.invoked = fast,
                                             !.data = [c \in {} |-> 0], !.before = self,
                                             !.last_called = frame.called_at]
              ELSE \E sd \in {slow_due(self, now_mono)} : \E vd \in {vslow_due(self, now_mono)} :
                   \E s1 \in {[self EXCEPT
                        !.slow_cache_time = IF sd THEN now_mono ELSE @,
                        !.slow = IF sd THEN [c \in Slow |-> IF Present(c) THEN n ELSE 0] ELSE @,
                        !.vslow_cache_time = IF vd THEN now_mono ELSE @,
                        !.vslow = IF vd THEN [c \in VerySlow |-> IF Present(c) THEN n ELSE 0]
                                  ELSE @]} :
                   \E called \in {fast \cup (IF sd THEN {c \in Slow : Present(c)} ELSE {})
                                       \cup (IF vd THEN {c \in VerySlow : Present(c)} ELSE {})} :
                     /\ pc' = "idle"
                     /\ self' = s1
                     /\ frame' = [op |-> "update", n |-> n, now |-> now_mono, invoked |-> called,
                                  data |-> [c \in Slow \cup VerySlow |->
                                              IF c \in Slow THEN s1.slow[c] ELSE s1.vslow[c]],
                                  before |-> self, last_called |-> frame.called_at,
                                  called_at |-> [c \in called \cup DOMAIN frame.called_at |->
                                                   IF c \in called THEN now_mono
                                                   ELSE frame.called_at[c]]]
    /\ UNCHANGED <<cls, host>>

InitGui ==
    /\ cls = "HousekeeperGui"
    /\ host \in GuiHosts
    /\ self = HousekeeperGui_init
    /\ pc = "idle"
    /\ frame = NoFrame

NextGui == HousekeeperGui_update

SpecGui == InitGui /\ [][NextGui]_vars

\* ----------------------------------------------------------------- C17
\* C17: every _update frame calls the five fast collectors; a slow collector
\* is called only in a frame at least 3 s after the frame of its last call,
\* a very slow one only at least 5 s after, and a frame that does not call
\* one draws the value its last call returned (the cached value, unchanged).
C17_TieredRefresh ==
    (cls = "HousekeeperGui" /\ frame.op = "update" /\ frame.n > 0) =>
        /\ {Fast[i] : i \in 1..Len(Fast)} \subseteq frame.invoked
        /\ \A c \in (Slow \cup VerySlow) \cap frame.invoked :
             c \in DOMAIN frame.last_called =>
                 frame.now - frame.last_called[c] >= (IF c \in Slow THEN 3 ELSE 5)
        /\ \A c \in (Slow \cup VerySlow) \ frame.invoked :
             /\ c \in DOMAIN frame.data
             /\ frame.data[c] = (IF c \in Slow THEN frame.before.slow[c]
                                 ELSE frame.before.vslow[c])

\* ================================================== PCIe: PcieCollector
\* A device of _cached_devices is [address, device_type, sub_type,
\* sub_label]; the link fields (speeds, widths, name) are read once and
\* copied into the record unchanged, so they are left out.  Throughputs are
\* <<rx, tx>> in bytes per second.
MaxCalls == 2

PcieSteps == {2, 4, 6}

Gpu0 == [address |-> "0000:01:00.0", device_type |-> "gpu", sub_type |-> "gpu", sub_label |-> "GPU0"]
Nvme0 == [address |-> "0000:02:00.0", device_type |-> "nvme", sub_type |-> "storage", sub_label |-> "nvme0n1"]
Nic0 == [address |-> "0000:03:00.0", device_type |-> "nic", sub_type |-> "network", sub_label |-> "eth0"]

\* a host: the PCI devices of /sys/bus/pci/devices, whether nvidia-smi is on
\* PATH, whether pynvml can be imported and initialised
PcieHosts ==
    {[devices |-> <<>>, nvidia |-> FALSE, pynvml |-> FALSE],
     [devices |-> <<Gpu0, Nvme0, Nic0>>, nvidia |-> FALSE, pynvml |-> FALSE],
     [devices |-> <<Gpu0, Nvme0, Nic0>>, nvidia |-> TRUE, pynvml |-> FALSE],
     [devices |-> <<Gpu0, Nvme0, Nic0>>, nvidia |-> TRUE, pynvml |-> TRUE]}

\* what _read_disk_stats and _read_net_stats return in one call
IoReadings ==
    {[disk |-> EmptyMap, net |-> EmptyMap],
     [disk |-> [n \in {"nvme0n1"} |-> <<0, 0>>], net |-> [n \in {"eth0"} |-> <<MaxTotal, 0>>]],
     [disk |-> [n \in {"nvme0n1"} |-> <<MaxTotal, 1>>], net |-> [n \in {"eth0"} |-> <<0, 1>>]]}

\* the rows `idx rx tx` parsed from the output of nvidia-smi dmon (MB/s), or
\* the per-GPU values of nvmlDeviceGetPcieThroughput (KB/s)
GpuRows == {EmptyMap, [i \in {0} |-> <<1, MaxTotal>>], [i \in {0} |-> <<MaxTotal, 0>>]}

\* how the run of nvidia-smi dmon ends
DmonOutcomes ==
    {[end |-> e, rows |-> EmptyMap] : e \in {"timeout", "missing", "nonzero"}}
        \cup {[end |-> "ok", rows |-> rows] : rows \in GpuRows}

\* how the pynvml loop ends
NvmlOutcomes ==
    {[end |-> "exception", rows |-> EmptyMap]} \cup {[end |-> "ok", rows |-> rows] : rows \in GpuRows}

PcieCollector_init(h) ==
    [prev_disk |-> EmptyMap, prev_net |-> EmptyMap, prev_time |-> 0,
     nvidia_pcie |-> h.nvidia, gpu_bdf_map |-> IF h.nvidia THEN [a \in {Gpu0.address} |-> 0]
                                               ELSE EmptyMap,
     dmon_cache |-> EmptyMap, dmon_cache_time |-> 0,
     cached_devices_set |-> FALSE, cached_devices |-> <<>>]

Throughput(rows, unit) == [i \in DOMAIN rows |-> <<rows[i][1] * unit, rows[i][2] * unit>>]

\* the fallback with a failed run forgetting the cache
PcieCollector_read_nvidia_pcie_throughput_fallback_forget(s, now, out) ==
    IF now - s.dmon_cache_time < 3 /\ s.dmon_cache # EmptyMap
    THEN [self |-> s, ret |-> s.dmon_cache, ran |-> FALSE]
    ELSE IF out.end \in {"timeout", "missing", "nonzero"}
    THEN [self |-> [s EXCEPT !.dmon_cache = EmptyMap, !.dmon_cache_time = now],
          ret |-> EmptyMap, ran |-> TRUE]
    ELSE LET throughput == Throughput(out.rows, 1048576)
         IN  [self |-> [s EXCEPT !.dmon_cache = throughput, !.dmon_cache_time = now],
              ret |-> throughput, ran |-> TRUE]

\* _read_nvidia_pcie_throughput_fallback(): the collector after the call,
\* the map returned, and whether nvidia-smi dmon was run
PcieCollector_read_nvidia_pcie_throughput_fallback(s, now, out) ==
    IF now - s.dmon_cache_time < 3 /\ s.dmon_cache # EmptyMap
    THEN [self |-> s, ret |-> s.dmon_cache, ran |-> FALSE]
    ELSE IF out.end \in {"timeout", "missing", "nonzero"}
    THEN [self |-> s, ret |-> s.dmon_cache, ran |-> TRUE]
    ELSE LET throughput == Throughput(out.rows, 1048576)
         IN  [self |-> [s EXCEPT !.dmon_cache = throughput, !.dmon_cache_time = now],
              ret |-> throughput, ran |-> TRUE]

\* _read_nvidia_pcie_throughput(): `via` tells which path answered
PcieCollector_read_nvidia_pcie_throughput(s, now, nvml, out) ==
    IF ~s.nvidia_pcie THEN [self |-> s, ret |-> EmptyMap, via |-> "off"]
    ELSE IF now - s.dmon_cache_time < 5 /\ s.dmon_cache # EmptyMap
    THEN [self |-> s, ret |-> s.dmon_cache, via |-> "cache"]
    ELSE IF ~host.pynvml \/ nvml.end = "exception"
    THEN LET r == PcieCollector_read_nvidia_pcie_throughput_fallback(s, now, out)
         IN  [self |-> r.self, ret |-> r.ret, via |-> IF r.ran THEN "dmon" ELSE "cache"]
    ELSE LET throughput == Throughput(nvml.rows, 1024)
         IN  [self |-> [s EXCEPT !.dmon_cache = throughput, !.dmon_cache_time = now],
              ret |-> throughput, via |-> "nvml"]

\* the PcieDeviceInfo built for one cached device
PcieDeviceInfo(s, d, dt, io, gpu_pcie) ==
    LET rate(curr, prev, k, unit) ==
            IF d.sub_label \in DOMAIN curr /\ dt > 0 /\ d.sub_label \in DOMAIN prev
            THEN FloatDiv(unit * (curr[d.sub_label][k] - prev[d.sub_label][k]), dt)
            ELSE Zero
        gpu(k) ==
            IF d.address \in DOMAIN s.gpu_bdf_map /\ s.gpu_bdf_map[d.address] \in DOMAIN gpu_pcie
            THEN FloatDiv(gpu_pcie[s.gpu_bdf_map[d.address]][k], 1)
            ELSE Zero
        io_rate(k) ==
            IF d.sub_type = "storage" /\ d.sub_label \in DOMAIN io.disk /\ dt > 0
            THEN rate(io.disk, s.prev_disk, k, 512)
            ELSE IF d.sub_type = "network" /\ d.sub_label \in DOMAIN io.net /\ dt > 0
            THEN rate(io.net, s.prev_net, k, 1)
            ELSE IF d.sub_type = "gpu" THEN gpu(k)
            ELSE Zero
    IN  [address |-> d.address, device_type |-> d.device_type,
         io_read_bytes_sec |-> Max0(io_rate(1)), io_write_bytes_sec |-> Max0(io_rate(2)),
         io_label |-> d.sub_label]

NoCollect ==
    [op |-> "collect", calls |-> 0, now |-> 0, via |-> "none", outcome |-> "none",
     gpu_pcie |-> EmptyMap, result |-> <<>>, before |-> PcieCollector_init(host)]

\* collect() on Linux
PcieCollector_collect ==
    /\ cls = "PcieCollector" /\ pc = "idle" /\ frame.calls < MaxCalls
    /\ \E step \in PcieSteps : \E io \in IoReadings :
       \E now \in {frame.now + step} :
       \E s0 \in {IF ~self.cached_devices_set
                  THEN [self EXCEPT !.cached_devices_set = TRUE,
                                    !.cached_devices = host.devices]
                  ELSE self} :
         IF s0.cached_devices = <<>>
         THEN /\ self' = s0
              /\ frame' = [NoCollect EXCEPT !.calls = frame.calls + 1, !.now = now,
                                            !.before = self]
         ELSE \E nvml \in (IF s0.nvidia_pcie /\ host.pynvml THEN NvmlOutcomes
                            ELSE {[end |-> "exception", rows |-> EmptyMap]}) :
              \E out \in (IF s0.nvidia_pcie /\ nvml.end = "exception" THEN DmonOutcomes
                           ELSE {[end |-> "missing", rows |-> EmptyMap]}) :
              \E dt \in {IF s0.prev_time # 0 THEN now - s0.prev_time ELSE 0} :
              \E r \in {PcieCollector_read_nvidia_pcie_throughput(s0, now, nvml, out)} :
                /\ self' = [r.self EXCEPT !.prev_disk = io.disk, !.prev_net = io.net,
                                          !.prev_time = now]
                /\ frame' = [op |-> "collect", calls |-> frame.calls + 1, now |-> now,
                             via |-> r.via,
                             outcome |-> IF r.via = "dmon"
                                         THEN out.end
                                         ELSE "none",
                             gpu_pcie |-> r.ret,
                             result |-> [i \in 1..Len(s0.cached_devices) |->
                                           PcieDeviceInfo(s0, s0.cached_devices[i], dt, io, r.ret)],
                             before |-> self]
    /\ pc' = "idle"
    /\ UNCHANGED <<cls, host>>

InitPcie ==
    /\ cls = "PcieCollector"
    /\ host \in PcieHosts
    /\ self = PcieCollector_init(host)
    /\ pc = "idle"
    /\ frame = NoCollect

NextPcie == PcieCollector_collect

SpecPcie == InitPcie /\ [][NextPcie]_vars

\* ----------------------------------------------------------------- C18
\* C18: when the run of nvidia-smi dmon times out, finds no binary or exits
\* non-zero, the fallback returns the map cached before the call, leaves
\* _dmon_cache and _dmon_cache_time as they were and raises nothing, and
\* collect() returns one record for each cached device, in their order.
C18_FailSoft ==
    (cls = "PcieCollector" /\ frame.via = "dmon"
        /\ frame.outcome \in {"timeout", "missing", "nonzero"}) =>
        /\ frame.gpu_pcie = frame.before.dmon_cache
        /\ self.dmon_cache = frame.before.dmon_cache
        /\ self.dmon_cache_time = frame.before.dmon_cache_time
        /\ pc # "raised"
        /\ Len(frame.result) = Len(self.cached_devices)
        /\ \A i \in 1..Len(frame.result) :
             frame.result[i].address = self.cached_devices[i].address

\* a failed run after a successful one: the GPU record carries the
\* throughput cached by the earlier run
C18_FailedWithCache ==
    /\ cls = "PcieCollector" /\ frame.via = "dmon" /\ frame.outcome = "timeout"
    /\ frame.before.dmon_cache # EmptyMap
    /\ frame.gpu_pcie = frame.before.dmon_cache
    /\ Len(frame.result) = 3
    /\ frame.result[1].io_read_bytes_sec = FloatDiv(frame.before.dmon_cache[0][1], 1)

\* ============================================ process: _get_friendly_name
\* A str is the sequence of its characters, so that lower(), split(),
\* basename, startswith/endswith and `key in cmdline` are computed on the
\* characters.
MaxArgs == 3

Upper == <<"A", "B", "C", "D", "E", "F", "G", "H", "I", "J", "K", "L", "M", "N", "O", "P", "Q", "R", "S", "T", "U", "V", "W", "X", "Y", "Z">>
Lowercase == <<"a", "b", "c", "d", "e", "f", "g", "h", "i", "j", "k", "l", "m", "n", "o", "p", "q", "r", "s", "t", "u", "v", "w", "x", "y", "z">>

\* str.lower()
Lower(s) ==
    [i \in 1..Len(s) |->
        IF \E k \in 1..Len(Upper) : Upper[k] = s[i]
        THEN Lowercase[CHOOSE k \in 1..Len(Upper) : Upper[k] = s[i]]
        ELSE s[i]]

\* str.split(): the words between runs of blanks
RECURSIVE SplitFrom(_, _, _, _)
SplitFrom(s, i, word, acc) ==
    IF i > Len(s) THEN (IF word = <<>> THEN acc ELSE Append(acc, word))
    ELSE IF s[i] = " "
    THEN SplitFrom(s, i + 1, <<>>, IF word = <<>> THEN acc ELSE Append(acc, word))
    ELSE SplitFrom(s, i + 1, Append(word, s[i]), acc)

Split(s) == SplitFrom(s, 1, <<>>, <<>>)

\* " ".join(words)
RECURSIVE Join(_)
Join(ws) ==
    IF ws = <<>> THEN <<>>
    ELSE IF Len(ws) = 1 THEN ws[1]
    ELSE ws[1] \o <<" ">> \o Join(Tail(ws))

\* key in s
Contains(s, key) ==
    \E i \in 1..(Len(s) - Len(key) + 1) : SubSeq(s, i, i + Len(key) - 1) = key

StartsWith(s, p) == Len(s) >= Len(p) /\ SubSeq(s, 1, Len(p)) = p
EndsWith(s, p) == Len(s) >= Len(p) /\ SubSeq(s, Len(s) - Len(p) + 1, Len(s)) = p

\* os.path.basename(p)
Basename(p) ==
    LET slashes == {i \in 1..Len(p) : p[i] = "/"}
        last == IF slashes = {} THEN 0 ELSE CHOOSE i \in slashes : \A j \in slashes : j <= i
    IN  SubSeq(p, last + 1, Len(p))

\* mod.split('.')[0]
TopModule(mod) ==
    LET dots == {i \in 1..Len(mod) : mod[i] = "."}
        first == IF dots = {} THEN Len(mod) + 1 ELSE CHOOSE i \in dots : \A j \in dots : i <= j
    IN  SubSeq(mod, 1, first - 1)

APP_NAMES ==
    <<[key |-> <<"c", "l", "a", "u", "d", "e">>, friendly |-> <<"C", "l", "a", "u", "d", "e", " ", "C", "o", "d", "e">>],
      [key |-> <<"a", "n", "t", "i", "g", "r", "a", "v", "i", "t", "y">>, friendly |-> <<"A", "n", "t", "i", "g", "r", "a", "v", "i", "t", "y">>],
      [key |-> <<"o", "l", "l", "a", "m", "a">>, friendly |-> <<"O", "l", "l", "a", "m", "a">>],
      [key |-> <<"v", "l", "l", "m">>, friendly |-> <<"v", "L", "L", "M">>],
      [key |-> <<"t", "r", "i", "t", "o", "n", "s", "e", "r", "v", "e", "r">>, friendly |-> <<"T", "r", "i", "t", "o", "n", " ", "S", "e", "r", "v", "e", "r">>],
      [key |-> <<"t", "o", "r", "c", "h", "r", "u", "n">>, friendly |-> <<"P", "y", "T", "o", "r", "c", "h", " ", "D", "D", "P">>],
      [key |-> <<"d", "e", "e", "p", "s", "p", "e", "e", "d">>, friendly |-> <<"D", "e", "e", "p", "S", "p", "e", "e", "d">>],
      [key |-> <<"j", "u", "p", "y", "t", "e", "r">>, friendly |-> <<"J", "u", "p", "y", "t", "e", "r">>],
      [key |-> <<"n", "v", "c", "c">>, friendly |-> <<"C", "U", "D", "A", " ", "C", "o", "m", "p", "i", "l", "e", "r">>],
      [key |-> <<"c", "o", "d", "e", "-", "s", "e", "r", "v", "e", "r">>, friendly |-> <<"V", "S", " ", "C", "o", "d", "e", " ", "S", "e", "r", "v", "e", "r">>],
      [key |-> <<"c", "o", "d", "e", " ">>, friendly |-> <<"V", "S", " ", "C", "o", "d", "e">>],
      [key |-> <<"d", "o", "c", "k", "e", "r">>, friendly |-> <<"D", "o", "c", "k", "e", "r">>],
      [key |-> <<"c", "o", "n", "t", "a", "i", "n", "e", "r", "d">>, friendly |-> <<"c", "o", "n", "t", "a", "i", "n", "e", "r", "d">>],
      [key |-> <<"n", "p", "m", " ">>, friendly |-> <<"n", "p", "m">>],
      [key |-> <<"n", "p", "x", " ">>, friendly |-> <<"n", "p", "x">>]>>

\* the words command lines are made of, and the comm values
Words ==
    {<<"p", "y", "t", "h", "o", "n", "3">>,
     <<"/", "u", "s", "r", "/", "b", "i", "n", "/", "p", "y", "t", "h", "o", "n">>,
     <<"n", "o", "d", "e">>,
     <<"-", "m">>,
     <<"-", "u">>,
     <<"v", "l", "l", "m", ".", "s", "e", "r", "v", "e">>,
     <<"t", "r", "a", "i", "n", ".", "p", "y">>,
     <<"/", "o", "p", "t", "/", "C", "l", "a", "u", "d", "e">>,
     <<"c", "o", "d", "e">>,
     <<"b", "a", "s", "h">>}

Cmdlines ==
    {Join(ws) : ws \in UNION {[1..n -> Words] : n \in 0..MaxArgs}} \cup {<<" ">>}

Comms == {<<>>, <<"w", "o", "r", "k", "e", "r">>}

\* `for key, friendly in _APP_NAMES: if key in cmdline_lower: return friendly`
\* the index of the entry returned, 0 when the loop falls through
app_hit(cmdline_lower) ==
    LET hits == {k \in 1..Len(APP_NAMES) : Contains(cmdline_lower, APP_NAMES[k].key)}
    IN  IF hits = {} THEN 0 ELSE CHOOSE k \in hits : \A j \in hits : k <= j

\* the `-m module` loop: <<>> when it falls through
python_module(parts) ==
    LET at == {i \in 1..(Len(parts) - 1) : parts[i] = <<"-", "m">>}
    IN  IF at = {} THEN <<>>
        ELSE LET i == CHOOSE x \in at : \A y \in at : x <= y
             IN  <<"p", "y", ":">> \o TopModule(parts[i + 1])

\* the first of parts[1:] that does not start with "-" (0 when none)
first_arg(parts) ==
    LET args == {i \in 2..Len(parts) : ~StartsWith(parts[i], <<"-">>)}
    IN  IF args = {} THEN 0 ELSE CHOOSE i \in args : \A j \in args : i <= j

\* the script loop of the python branch
python_script(parts) ==
    IF first_arg(parts) = 0 THEN <<"P", "y", "t", "h", "o", "n">>
    ELSE LET script == Basename(parts[first_arg(parts)])
         IN  IF EndsWith(script, <<".", "p", "y">>)
             THEN <<"p", "y", ":">> \o SubSeq(script, 1, Len(script) - 3)
             ELSE <<"p", "y", ":">> \o script

\* the argument loop of the node branch
node_script(parts) ==
    IF first_arg(parts) = 0 THEN <<"N", "o", "d", "e", ".", "j", "s">>
    ELSE <<"n", "o", "d", "e", ":">> \o Basename(parts[first_arg(parts)])

\* the python branch taking the module or script before the known names
get_friendly_name_script_first(cmdline, comm) ==
    LET cmdline_lower == Lower(cmdline)
        parts == Split(cmdline)
        base == Basename(parts[1])
        hit == app_hit(cmdline_lower)
    IN  IF parts = <<>> THEN (IF comm # <<>> THEN comm ELSE <<"u", "n", "k", "n", "o", "w", "n">>)
        ELSE IF StartsWith(base, <<"p", "y", "t", "h", "o", "n">>)
        THEN (IF python_module(parts) # <<>> THEN python_module(parts)
              ELSE IF first_arg(parts) # 0 THEN python_script(parts)
              ELSE IF hit # 0 THEN APP_NAMES[hit].friendly
              ELSE python_script(parts))
        ELSE IF base \in {<<"n", "o", "d", "e">>, <<"n", "o", "d", "e", "j", "s">>}
        THEN (IF hit # 0 THEN APP_NAMES[hit].friendly ELSE node_script(parts))
        ELSE IF hit # 0 THEN APP_NAMES[hit].friendly
        ELSE IF comm # <<>> THEN comm ELSE base

\* _get_friendly_name(cmdline, comm)
get_friendly_name(cmdline, comm) ==
    LET cmdline_lower == Lower(cmdline)
        parts == Split(cmdline)
        base == Basename(parts[1])
        hit == app_hit(cmdline_lower)
    IN  IF parts = <<>> THEN (IF comm # <<>> THEN comm ELSE <<"u", "n", "k", "n", "o", "w", "n">>)
        ELSE IF StartsWith(base, <<"p", "y", "t", "h", "o", "n">>)
        THEN (IF hit # 0 THEN APP_NAMES[hit].friendly
              ELSE IF python_module(parts) # <<>> THEN python_module(parts)
              ELSE python_script(parts))
        ELSE IF base \in {<<"n", "o", "d", "e">>, <<"n", "o", "d", "e", "j", "s">>}
        THEN (IF hit # 0 THEN APP_NAMES[hit].friendly ELSE node_script(parts))
        ELSE IF hit # 0 THEN APP_NAMES[hit].friendly
        ELSE IF comm # <<>> THEN comm ELSE base

NoName == [op |-> "name", name |-> <<>>]

\* friendly = _get_friendly_name(cmdline, stat.comm) for one process
ProcessCollector_name ==
    /\ cls = "process" /\ pc = "idle"
    /\ frame' = [op |-> "name", name |-> get_friendly_name(host.cmdline, host.comm)]
    /\ pc' = "named"
    /\ UNCHANGED <<cls, host, self>>

InitName ==
    /\ cls = "process"
    /\ host \in [cmdline : Cmdlines, comm : Comms]
    /\ self = EmptyMap
    /\ pc = "idle"
    /\ frame = NoName

NextName == ProcessCollector_name

SpecName == InitName /\ [][NextName]_vars

\* ----------------------------------------------------------------- C19
\* C19: the name of a process is, in this order of precedence: the friendly
\* name of the first _APP_NAMES key found in the lower-cased command line;
\* for python the top module after `-m`, else the first non-option argument
\* (basename, without .py), for node the basename of the first non-option
\* argument; the raw executable name (comm, else the basename of the first
\* word).  A command line with no word gives comm, or "unknown".
C19_Precedence ==
    (cls = "process" /\ pc = "named") =>
        LET parts == Split(host.cmdline)
            hits == {k \in 1..Len(APP_NAMES) : Contains(Lower(host.cmdline), APP_NAMES[k].key)}
            base == Basename(parts[1])
            python == StartsWith(base, <<"p", "y", "t", "h", "o", "n">>)
            node == base \in {<<"n", "o", "d", "e">>, <<"n", "o", "d", "e", "j", "s">>}
            arg == parts[first_arg(parts)]
        IN  IF parts = <<>>
            THEN frame.name = (IF host.comm # <<>> THEN host.comm ELSE <<"u", "n", "k", "n", "o", "w", "n">>)
            ELSE /\ hits # {} =>
                      \E k \in hits : /\ \A j \in hits : k <= j
                                      /\ frame.name = APP_NAMES[k].friendly
                 /\ (hits = {} /\ python /\ python_module(parts) # <<>>) =>
                      frame.name = python_module(parts)
                 /\ (hits = {} /\ python /\ python_module(parts) = <<>> /\ first_arg(parts) # 0) =>
                      frame.name = <<"p", "y", ":">> \o
                          (IF EndsWith(Basename(arg), <<".", "p", "y">>)
                           THEN SubSeq(Basename(arg), 1, Len(Basename(arg)) - 3)
                           ELSE Basename(arg))
                 /\ (hits = {} /\ node /\ first_arg(parts) # 0) =>
                      frame.name = <<"n", "o", "d", "e", ":">> \o Basename(arg)
                 /\ (hits = {} /\ ~python /\ ~node) =>
                      frame.name = (IF host.comm # <<>> THEN host.comm ELSE base)

\* `python3 -m vllm.serve`: the known name wins over py:vllm
C19_AppOverModule ==
    /\ cls = "process" /\ pc = "named"
    /\ host.cmdline = <<"p", "y", "t", "h", "o", "n", "3", " ", "-", "m", " ", "v", "l", "l", "m", ".", "s", "e", "r", "v", "e">>
    /\ python_module(Split(host.cmdline)) = <<"p", "y", ":", "v", "l", "l", "m">>
    /\ frame.name = <<"v", "L", "L", "M">>

\* ========================================= network: _classify_interfaces
\* An interface of the host is its name (a str, as above) with the
\* destination of its line in /proc/net/route ("none": no line) and the
\* kind of address it carries.
MaxIfaces == 2

VIRTUAL_PREFIXES ==
    <<<<"d", "o", "c", "k", "e", "r">>,
      <<"v", "e", "t", "h">>,
      <<"b", "r", "-">>,
      <<"v", "i", "r", "b", "r">>,
      <<"l", "x", "c">>,
      <<"f", "l", "a", "n", "n", "e", "l">>,
      <<"c", "n", "i">>,
      <<"c", "a", "l", "i", "c", "o">>,
      <<"t", "u", "n">>,
      <<"t", "a", "p">>>>

IfaceNames ==
    {<<"l", "o">>, <<"e", "t", "h", "0">>, <<"w", "l", "a", "n", "0">>, <<"d", "o", "c", "k", "e", "r", "0">>, <<"t", "u", "n", "0">>}

Lo == <<"l", "o">>

IfaceFacts == [route : {"none", "00000000", "0000A8C0"},
               ip : {"none", "private", "public", "invalid"}]

\* the hosts: whether /proc/net/route and /sys/class/net can be read, and
\* the interfaces of /sys/class/net
ClassifyHosts ==
    UNION {[route_ok : BOOLEAN, sysfs_ok : BOOLEAN, ifaces : [S -> IfaceFacts]]
             : S \in {X \in SUBSET IfaceNames : Cardinality(X) <= MaxIfaces}}

\* _get_iface_ip returning the address the interface carries
get_iface_ip_resolved(h, iface) ==
    IF h.ifaces[iface].ip = "none" THEN "None" ELSE h.ifaces[iface].ip

\* _get_iface_ip(iface): None on both paths
get_iface_ip(h, iface) == "None"

\* the loop over /proc/net/route
default_ifaces(h) ==
    IF h.route_ok THEN {i \in DOMAIN h.ifaces : h.ifaces[i].route = "00000000"} ELSE {}

\* any(iface.startswith(p) for p in _VIRTUAL_PREFIXES)
is_virtual(iface) == \E k \in 1..Len(VIRTUAL_PREFIXES) : StartsWith(iface, VIRTUAL_PREFIXES[k])

\* the body of the loop over /sys/class/net for one interface other than lo
classify(h, iface) ==
    IF is_virtual(iface) THEN "VIR"
    ELSE IF iface \in default_ifaces(h) THEN "WAN"
    ELSE LET ip_addr == get_iface_ip(h, iface)
         IN  IF ip_addr # "None"
             THEN (IF ip_addr = "invalid" THEN "LAN"
                   ELSE IF ip_addr = "private" THEN "LAN"
                   ELSE "WAN")
             ELSE "LAN"

\* _classify_interfaces() on Linux
classify_interfaces(h) ==
    IF ~h.sysfs_ok THEN EmptyMap
    ELSE [iface \in DOMAIN h.ifaces \ {Lo} |-> classify(h, iface)]

NoClassification == [op |-> "classify", classification |-> EmptyMap]

\* self._classification = _classify_interfaces()
classify_interfaces_call ==
    /\ cls = "network" /\ pc = "idle"
    /\ frame' = [op |-> "classify", classification |-> classify_interfaces(host)]
    /\ pc' = "classified"
    /\ UNCHANGED <<cls, host, self>>

InitClassify ==
    /\ cls = "network"
    /\ host \in ClassifyHosts
    /\ self = EmptyMap
    /\ pc = "idle"
    /\ frame = NoClassification

NextClassify == classify_interfaces_call

SpecClassify == InitClassify /\ [][NextClassify]_vars

\* ----------------------------------------------------------------- C20
\* C20: of the interfaces listed in /sys/class/net, one whose name starts
\* with a virtual prefix is VIRTUAL even when /proc/net/route gives it the
\* default route; any other with the default route is WAN; any other is
\* LAN, whether its address is private or not; lo is never classified.
C20_Precedence ==
    (cls = "network" /\ pc = "classified") =>
        LET c == frame.classification
            virtual(i) == \E k \in 1..Len(VIRTUAL_PREFIXES) : StartsWith(i, VIRTUAL_PREFIXES[k])
            routed(i) == host.route_ok /\ host.ifaces[i].route = "00000000"
        IN  /\ Lo \notin DOMAIN c
            /\ host.sysfs_ok =>
                 \A i \in DOMAIN host.ifaces \ {Lo} :
                    /\ i \in DOMAIN c
                    /\ c[i] = (IF virtual(i) THEN "VIR"
                               ELSE IF routed(i) THEN "WAN"
                               ELSE IF host.ifaces[i].ip = "private" THEN "LAN"
                               ELSE "LAN")

\* docker0 carries the default route and is VIRTUAL; wlan0 has a public
\* address, no default route, and is LAN
C20_VirtualWithRoute ==
    /\ cls = "network" /\ pc = "classified"
    /\ host.route_ok /\ host.sysfs_ok
    /\ DOMAIN host.ifaces = {<<"d", "o", "c", "k", "e", "r", "0">>, <<"w", "l", "a", "n", "0">>}
    /\ host.ifaces[<<"d", "o", "c", "k", "e", "r", "0">>].route = "00000000"
    /\ host.ifaces[<<"w", "l", "a", "n", "0">>] = [route |-> "0000A8C0", ip |-> "public"]
    /\ frame.classification[<<"d", "o", "c", "k", "e", "r", "0">>] = "VIR"
    /\ frame.classification[<<"w", "l", "a", "n", "0">>] = "LAN"

\* ----------------------------------------------------------------- C27
\* C27: a cycle in which /proc/stat could not be read reports
\* ctx_switches_sec and interrupts_sec that are not negative (and no more
\* than the real increase of the counter over the interval).
C27_FailedReadNoRate ==
    (Returned({"KernelCollector"}) /\ "stat" \notin DOMAIN frame.curr) =>
        /\ ~IsNegative(frame.info.ctx_switches_sec)
        /\ ~IsNegative(frame.info.interrupts_sec)

\* ----------------------------------------------------------------- C28
\* C28: every CpuUsage returned by collect(), the baseline record of a label
\* with no stored reading and the record of an unchanged total included, has
\* total_pct = user_pct + nice_pct + system_pct + irq_pct + steal_pct.
C28_TotalOfParts ==
    Returned({"CpuCollector"}) =>
        \A i \in 1..Len(frame.usages) :
            LET u == frame.usages[i]
            IN  FloatEq(total_pct(u),
                        FloatAdd(FloatAdd(FloatAdd(u.user_pct, u.nice_pct),
                                          FloatAdd(u.system_pct, u.irq_pct)), u.steal_pct))

\* ----------------------------------------------------------------- C23
\* the sum, over the connections to ip among the first n of ConnOrder that
\* are in both the stored and the current snapshot, of max(0, change of f)
RECURSIVE SumClamped(_, _, _)
SumClamped(ip, f, n) ==
    IF n = 0 THEN 0
    ELSE LET k == ConnOrder[n]
             d == frame.curr[k][f] - frame.prev[k][f]
         IN  SumClamped(ip, f, n - 1)
             + (IF k[3] = ip /\ k \in DOMAIN frame.curr /\ k \in DOMAIN frame.prev /\ d > 0
                THEN d ELSE 0)

\* C23: collect() builds one record for each remote address of the current
\* snapshot; its conn_count is the number of current connections to the
\* address, and with dt > 0 its tx/rx_bytes_sec is the sum of max(0, change)
\* over the connections present in both snapshots, divided by dt.
C23_PerIpAggregation ==
    Returned({"ConntrackCollector"}) =>
        /\ {frame.candidates[i].remote_ip : i \in 1..Len(frame.candidates)}
             = {k[3] : k \in DOMAIN frame.curr}
        /\ \A i, j \in 1..Len(frame.candidates) :
             frame.candidates[i].remote_ip = frame.candidates[j].remote_ip => i = j
        /\ \A i \in 1..Len(frame.candidates) :
             LET u == frame.candidates[i]
             IN  /\ u.conn_count = Cardinality({k \in DOMAIN frame.curr : k[3] = u.remote_ip})
                 /\ frame.dt > 0 =>
                      /\ u.tx_bytes_sec = FloatDiv(SumClamped(u.remote_ip, "sent", Len(ConnOrder)), frame.dt)
                      /\ u.rx_bytes_sec = FloatDiv(SumClamped(u.remote_ip, "recv", Len(ConnOrder)), frame.dt)

\* two connections to one address, both seen before: the bytes sent fell on
\* the first and rose on the second, and the rise alone is reported
C23_OneFellOneRose ==
    /\ Returned({"ConntrackCollector"}) /\ frame.dt > 0
    /\ {ConnOrder[1], ConnOrder[2]} \subseteq (DOMAIN frame.curr \cap DOMAIN frame.prev)
    /\ frame.curr[ConnOrder[1]].sent < frame.prev[ConnOrder[1]].sent
    /\ frame.curr[ConnOrder[2]].sent > frame.prev[ConnOrder[2]].sent
    /\ \E i \in 1..Len(frame.candidates) :
         /\ frame.candidates[i].remote_ip = ConnOrder[1][3]
         /\ frame.candidates[i].conn_count = 2
         /\ frame.candidates[i].tx_bytes_sec
              = FloatDiv(frame.curr[ConnOrder[2]].sent - frame.prev[ConnOrder[2]].sent, frame.dt)

\* ----------------------------------------------------------------- C24
\* C24: once the main thread has taken a worker's result at time t, no call
\* of _collect_ipmi before t + 10 s starts a worker, whatever the result.
C24_CacheTenSeconds ==
    [][(TemperatureCollector_check_thread /\ Len(self'.threads) > Len(self.threads)
          /\ self.ipmi_cache.by # 0)
       => frame.now - self.ipmi_cache_time >= 10]_vars

\* ----------------------------------------------------------------- C25
\* C25: a collect() called less than 5 s after the last call that was not
\* answered from the cache returns the cached list and leaves the collector
\* as it was: _layout_tick, _ipmi_pending and the threads included.
C25_CachedCall ==
    [][(TemperatureCollector_collect /\ self.cache_set /\ frame'.now - self.cache_time < 5)
       => /\ self' = self
          /\ pc' = "idle"
          /\ frame'.via = "cache" /\ frame'.result = self.cache]_vars

\* a cached call while a published result waits in the slot
C25_CachedWhilePending ==
    /\ cls = "TemperatureCollector" /\ pc = "idle" /\ frame.via = "cache"
    /\ self.ipmi_pending # <<>> /\ self.layout_tick = 1
    /\ frame.now - self.cache_time < 5

\* ============================================================ MemoryCollector
\* The resctrl bandwidth counters.  time.monotonic() is counted in ticks of
\* 5 ms, so that 0.01 s is 2 ticks, and the counters in GiB, so that x GiB in
\* t ticks is 200 * x / t GiB/s.
MaxSamples == 3

\* the seconds between two calls, in ticks
MbmSteps == 0..3

\* read_text() and int() of one counter file
MbmRead == {[ok |-> FALSE, v |-> 0]} \cup {[ok |-> TRUE, v |-> k] : k \in 0..MaxTotal}

\* the monitoring directories: the files found in them, and whether the
\* counters are, or can be, configured as reads and writes
MemHosts ==
    {[total_files |-> <<>>, local_files |-> <<>>, split |-> FALSE],
     [total_files |-> <<"mon_L3_00", "mon_L3_01">>, local_files |-> <<>>, split |-> TRUE],
     [total_files |-> <<"mon_L3_00">>, local_files |-> <<"mon_L3_00">>, split |-> FALSE],
     [total_files |-> <<"mon_L3_00">>, local_files |-> <<"mon_L3_00">>, split |-> TRUE]}

MemoryCollector_init(h) ==
    [mbm_total_files |-> h.total_files, mbm_local_files |-> h.local_files,
     mbm_rw_split |-> h.total_files # <<>> /\ h.local_files # <<>> /\ h.split,
     mbm_prev_total |-> 0, mbm_prev_local |-> 0, mbm_prev_time |-> 0]

\* the values of the first n files of a read that could be read, added up
RECURSIVE SumRead(_, _)
SumRead(reads, n) ==
    IF n = 0 THEN 0
    ELSE SumRead(reads, n - 1) + (IF reads[n].ok THEN reads[n].v ELSE 0)

Zeros == <<Zero, Zero, Zero>>

\* _read_mbm_bandwidth with a call too close to the last one taken as the
\* new snapshot
MemoryCollector_read_mbm_bandwidth_restamp(s, now, totals, locals) ==
    IF s.mbm_total_files = <<>> \/ \E i \in 1..Len(totals) : ~totals[i].ok
    THEN [self |-> s, result |-> Zeros, via |-> "failed"]
    ELSE LET total_bytes == SumRead(totals, Len(totals))
             local_bytes == IF s.mbm_rw_split THEN SumRead(locals, Len(locals)) ELSE 0
             stored == [s EXCEPT !.mbm_prev_total = total_bytes,
                                 !.mbm_prev_local = local_bytes,
                                 !.mbm_prev_time = now]
             dt == now - s.mbm_prev_time
             d_total == Max0Int(total_bytes - s.mbm_prev_total)
             d_local == Max0Int(local_bytes - s.mbm_prev_local)
             r_gbs == FloatDiv(200 * d_total, dt)
             w_gbs == FloatDiv(200 * d_local, dt)
         IN  IF s.mbm_prev_time = 0
             THEN [self |-> stored, result |-> Zeros, via |-> "baseline"]
             ELSE IF dt < 2
             THEN [self |-> stored, result |-> Zeros, via |-> "close"]
             ELSE IF s.mbm_rw_split
             THEN [self |-> stored, result |-> <<FloatAdd(r_gbs, w_gbs), r_gbs, w_gbs>>,
                   via |-> "rate"]
             ELSE [self |-> stored, result |-> <<r_gbs, Zero, Zero>>, via |-> "rate"]

\* _read_mbm_bandwidth at time `now`, the total and local files reading as
\* `totals` and `locals`: the collector after the call and the tuple returned
MemoryCollector_read_mbm_bandwidth(s, now, totals, locals) ==
    IF s.mbm_total_files = <<>> \/ \E i \in 1..Len(totals) : ~totals[i].ok
    THEN [self |-> s, result |-> Zeros, via |-> "failed"]
    ELSE LET total_bytes == SumRead(totals, Len(totals))
             local_bytes == IF s.mbm_rw_split THEN SumRead(locals, Len(locals)) ELSE 0
             stored == [s EXCEPT !.mbm_prev_total = total_bytes,
                                 !.mbm_prev_local = local_bytes,
                                 !.mbm_prev_time = now]
             dt == now - s.mbm_prev_time
             d_total == Max0Int(total_bytes - s.mbm_prev_total)
             d_local == Max0Int(local_bytes - s.mbm_prev_local)
             r_gbs == FloatDiv(200 * d_total, dt)
             w_gbs == FloatDiv(200 * d_local, dt)
         IN  IF s.mbm_prev_time = 0
             THEN [self |-> stored, result |-> Zeros, via |-> "baseline"]
             ELSE IF dt < 2
             THEN [self |-> s, result |-> Zeros, via |-> "close"]
             ELSE IF s.mbm_rw_split
             THEN [self |-> stored, result |-> <<FloatAdd(r_gbs, w_gbs), r_gbs, w_gbs>>,
                   via |-> "rate"]
             ELSE [self |-> stored, result |-> <<r_gbs, Zero, Zero>>, via |-> "rate"]

NoSample ==
    [op |-> "collect", calls |-> 0, now |-> 0, via |-> "none", last_via |-> "none",
     total |-> <<>>, local |-> <<>>, result |-> Zeros, before |-> MemoryCollector_init(host)]

\* collect(), as far as the bandwidth goes: the call of _read_mbm_bandwidth
\* and the three values it puts into MemoryUsage
MemoryCollector_collect ==
    /\ cls = "MemoryCollector" /\ pc = "idle" /\ frame.calls < MaxSamples
    /\ \E step \in MbmSteps, totals \in [1..Len(self.mbm_total_files) -> MbmRead],
          locals \in [1..Len(self.mbm_local_files) -> MbmRead] :
         /\ frame.now + step > 0
         /\ (~self.mbm_rw_split => \A i \in 1..Len(locals) : locals[i] = [ok |-> TRUE, v |-> 0])
         /\ \E r \in {MemoryCollector_read_mbm_bandwidth(self, frame.now + step, totals, locals)} :
              /\ self' = r.self
              /\ frame' = [op |-> "collect", calls |-> frame.calls + 1,
                           now |-> frame.now + step, via |-> r.via, last_via |-> frame.via,
                           total |-> totals, local |-> locals, result |-> r.result,
                           before |-> self]
    /\ UNCHANGED <<cls, host, pc>>

InitMemory ==
    /\ cls = "MemoryCollector"
    /\ host \in MemHosts
    /\ self = MemoryCollector_init(host)
    /\ pc = "idle"
    /\ frame = NoSample

NextMemory == MemoryCollector_collect

SpecMemory == InitMemory /\ [][NextMemory]_vars

\* ----------------------------------------------------------------- C26
\* C26: a call of _read_mbm_bandwidth less than 0.01 s after the stored
\* timestamp, or one in which a total file cannot be read, returns three
\* zeros and leaves the stored snapshot alone; a call that does report
\* reports the clamped increase since the snapshot stored before it over the
\* whole time since that snapshot.
C26_DegenerateCall ==
    (cls = "MemoryCollector" /\ frame.calls > 0) =>
        LET b == frame.before
            dt == frame.now - b.mbm_prev_time
            failed == \E i \in 1..Len(frame.total) : ~frame.total[i].ok
            d_total == Max0Int(SumRead(frame.total, Len(frame.total)) - b.mbm_prev_total)
            d_local == Max0Int(SumRead(frame.local, Len(frame.local)) - b.mbm_prev_local)
        IN  /\ (failed \/ (b.mbm_prev_time # 0 /\ dt < 2)) =>
                   (frame.result = Zeros /\ self = b)
            /\ (~failed /\ b.mbm_total_files # <<>> /\ b.mbm_prev_time # 0 /\ dt >= 2) =>
                   /\ self.mbm_prev_time = frame.now
                   /\ frame.result[1] = FloatDiv(200 * (IF b.mbm_rw_split THEN d_total + d_local
                                                         ELSE d_total), dt)

\* a call too close to the snapshot, then one that reports the increase
\* over the whole time since the snapshot
C26_CloseThenRate ==
    /\ cls = "MemoryCollector" /\ frame.last_via = "close" /\ frame.via = "rate"
    /\ frame.now - frame.before.mbm_prev_time = 3
    /\ ~IsZero(frame.result[1])

\* ------------------------------------------------------- clamped collectors
\* The four collectors that clamp their rates, each polled on its own.
InitRates ==
    \/ /\ pc = "idle" /\ frame = idle /\ host = EmptyMap
       /\ \/ cls = "NfsMountCollector" /\ self = NfsMountCollector_init
          \/ cls = "ConntrackCollector" /\ \E top_n \in TopNs : self = ConntrackCollector_init(top_n)
    \/ InitPcie
    \/ InitMemory

NextRates ==
    \/ NfsMountCollector_collect
    \/ ConntrackCollector_collect
    \/ PcieCollector_collect
    \/ MemoryCollector_collect
    \/ render

SpecRates == InitRates /\ [][NextRates]_vars

\* a float that is a number and not below zero
NonNegative(r) == IsFinite(r) /\ r.num >= 0

\* ----------------------------------------------------------------- C21
\* C21: with dt > 0, whatever the counters did, the tx/rx rates of
\* ConntrackCollector, the read/write byte rates of NfsMountCollector, the
\* io_read/io_write rates of PcieCollector and the three bandwidth values of
\* MemoryCollector are all >= 0.
C21_NonNegative ==
    /\ (Returned({"ConntrackCollector"}) /\ frame.dt > 0) =>
           \A i \in 1..Len(frame.usages) :
               NonNegative(frame.usages[i].tx_bytes_sec) /\ NonNegative(frame.usages[i].rx_bytes_sec)
    /\ (Returned({"NfsMountCollector"}) /\ frame.dt > 0) =>
           \A i \in 1..Len(frame.usages) :
               /\ NonNegative(frame.usages[i].read_bytes_sec)
               /\ NonNegative(frame.usages[i].write_bytes_sec)
    /\ (cls = "PcieCollector" /\ frame.calls > 0) =>
           \A i \in 1..Len(frame.result) :
               /\ NonNegative(frame.result[i].io_read_bytes_sec)
               /\ NonNegative(frame.result[i].io_write_bytes_sec)
    /\ (cls = "MemoryCollector" /\ frame.calls > 0) =>
           \A k \in 1..3 : NonNegative(frame.result[k])

\* a mount whose read counter fell while its write counter rose
C21_CounterFell ==
    /\ Returned({"NfsMountCollector"}) /\ frame.dt > 0
    /\ \E i \in 1..Len(frame.curr) :
         LET m == frame.curr[i]
         IN  /\ m.mount_point \in DOMAIN frame.prev
             /\ m.read_bytes < frame.prev[m.mount_point].read_bytes
             /\ m.write_bytes > frame.prev[m.mount_point].write_bytes
             /\ IsZero(frame.usages[i].read_bytes_sec)
             /\ ~IsZero(frame.usages[i].write_bytes_sec)

\* ------------------------------------------------- the tracker left running
\* The tracker of one section drawn cycle after cycle without end.  The rates
\* stay close to the floor, so that the decay reaches it in a
\* few cycles.
CalmObservations ==
    {FloatDiv(0, 1), FloatDiv(500, 1), Floor} \cup {FloatDiv(1000 + 50 * k, 1) : k \in 1..MaxObs}

NoCycle == [op |-> "draw", updated |-> FALSE, old |-> Floor, cur |-> Zero]

\* a cycle in which the tracker's lines are reached
Tracker_update ==
    /\ cls \in {"Renderer", "HousekeeperGui"} /\ frame.op = "draw"
    /\ \E n \in 0..MaxDevs : \E f \in [1..n -> CalmObservations \X CalmObservations \X {TRUE}] :
         /\ (n = 0 => cls = "Renderer" /\ host # "pcie")
         /\ self' = [self EXCEPT !.peak = peak_update(self.peak, cur_peak(Devs(n, f)))]
         /\ frame' = [op |-> "draw", updated |-> TRUE, old |-> self.peak,
                      cur |-> cur_peak(Devs(n, f))]
    /\ UNCHANGED <<cls, host, pc>>

\* a cycle in which they are not: no device to show
Tracker_skip ==
    /\ (cls = "HousekeeperGui" \/ (cls = "Renderer" /\ host = "pcie")) /\ frame.op = "draw"
    /\ frame' = [frame EXCEPT !.updated = FALSE]
    /\ UNCHANGED <<cls, host, self, pc>>

InitCalm ==
    /\ cls \in {"Renderer", "HousekeeperGui"}
    /\ host \in {"disk", "net", "nfs", "pcie"}
    /\ self = Tracker_init
    /\ pc = "idle"
    /\ frame = NoCycle

NextCalm == Tracker_update \/ Tracker_skip

\* the section keeps being drawn, and keeps having devices to show
SpecCalm == InitCalm /\ [][NextCalm]_vars /\ WF_vars(Tracker_update)

\* ----------------------------------------------------------------- C22
\* C22: an update whose observation is not above the stored peak does not
\* raise the peak; and if from some cycle on no observation is above 1000.0,
\* the peak comes to be exactly 1000.0 and stays there.
C22_ReturnsToFloor ==
    /\ []((frame.updated /\ frame.cur.num * frame.old.den <= frame.old.num * frame.cur.den)
             => self.peak.num * frame.old.den <= frame.old.num * self.peak.den)
    /\ (<>[](frame.cur.num <= 1000 * frame.cur.den)
           => <>[](self.peak = Floor))

\* the peak back at the floor two updates after a rate above it
C22_BackAtFloor ==
    /\ frame.op = "draw" /\ frame.updated
    /\ frame.old = Decayed(FloatDiv(1100, 1))
    /\ self.peak = Floor

\* ============================================================ GpuCollector
\* how pynvml's import, nvmlInit and the handle loop end: with an exception,
\* or with `count` cached handles
NvmlInits == {[ok |-> FALSE, count |-> 0], [ok |-> TRUE, count |-> 0], [ok |-> TRUE, count |-> 1]}

\* _try_nvidia_smi(): None (written <<>>) or a list that is not empty; and
\* the lists _try_macos_gpu() and _try_win_gpu() can return
SmiResults == {<<>>, <<"nvidia-smi">>}
OsResults == {<<>>, <<"system">>}

GpuCollector_init == [use_nvml |-> "None", nvml_ok |-> FALSE, handles |-> 0]

\* _init_nvml with a failure leaving the decision open
GpuCollector_init_nvml_retry(s, init) ==
    IF init.ok
    THEN [s EXCEPT !.handles = init.count, !.nvml_ok = TRUE, !.use_nvml = "True"]
    ELSE [s EXCEPT !.nvml_ok = FALSE]

\* _init_nvml
GpuCollector_init_nvml(s, init) ==
    IF init.ok
    THEN [s EXCEPT !.handles = init.count, !.nvml_ok = TRUE, !.use_nvml = "True"]
    ELSE [s EXCEPT !.use_nvml = "False", !.nvml_ok = FALSE]

\* _collect_nvml: `raises` tells whether a call on a handle raises something
\* other than the NVMLError caught around it
GpuCollector_collect_nvml(s, raises, smi) ==
    IF s.handles > 0 /\ raises
    THEN [self |-> [s EXCEPT !.nvml_ok = FALSE, !.use_nvml = "False"],
          result |-> smi, path |-> "nvml", failed |-> TRUE, smi_called |-> TRUE]
    ELSE [self |-> s, result |-> [i \in 1..s.handles |-> "nvml"],
          path |-> "nvml", failed |-> FALSE, smi_called |-> FALSE]

NoGpuCall ==
    [op |-> "collect", calls |-> 0, inits |-> 0, path |-> "none", failed |-> FALSE,
     smi_called |-> FALSE, smi |-> <<>>, os |-> <<>>, result |-> <<>>,
     before |-> GpuCollector_init]

\* collect()
GpuCollector_collect ==
    /\ cls = "GpuCollector" /\ pc = "idle" /\ frame.calls < MaxSamples
    /\ \E init \in NvmlInits, raises \in BOOLEAN, smi \in SmiResults, os \in OsResults :
       \E s1 \in {IF self.use_nvml = "None" THEN GpuCollector_init_nvml(self, init) ELSE self} :
       \E r \in {IF s1.use_nvml = "True" /\ s1.nvml_ok
                 THEN GpuCollector_collect_nvml(s1, raises, smi)
                 ELSE [self |-> s1,
                       result |-> IF smi # <<>> THEN smi
                                  ELSE IF host \in {"darwin", "win32"} THEN os
                                  ELSE <<>>,
                       path |-> "nvidia-smi", failed |-> self.use_nvml = "None",
                       smi_called |-> TRUE]} :
         /\ self' = r.self
         /\ frame' = [op |-> "collect", calls |-> frame.calls + 1,
                      inits |-> frame.inits + (IF self.use_nvml = "None" THEN 1 ELSE 0),
                      path |-> r.path, failed |-> r.failed, smi_called |-> r.smi_called,
                      smi |-> smi, os |-> os, result |-> r.result, before |-> self]
    /\ UNCHANGED <<cls, host, pc>>

InitGpu ==
    /\ cls = "GpuCollector"
    /\ host \in {"linux", "darwin", "win32"}
    /\ self = GpuCollector_init
    /\ pc = "idle"
    /\ frame = NoGpuCall

NextGpu == GpuCollector_collect

SpecGpu == InitGpu /\ [][NextGpu]_vars

\* ----------------------------------------------------------------- C29
\* NVML is initialised at most once, and a collector that has given NVML up
\* stays that way and asks nvidia-smi in every later collect()
OneWay ==
    (cls = "GpuCollector" /\ frame.calls > 0) =>
        /\ frame.inits <= 1
        /\ frame.before.use_nvml = "False" =>
               (self.use_nvml = "False" /\ frame.path = "nvidia-smi" /\ frame.smi_called)
        /\ frame.failed => (self.use_nvml = "False" /\ frame.smi_called /\ pc = "idle")

\* C29 (as stated): NVML is initialised at most once; once _use_nvml is
\* False it stays False and every later collect() goes to nvidia-smi; and the
\* collect() in which NVML fails returns what nvidia-smi gave, or the empty
\* list.
C29_OneWayFallback_stated ==
    /\ OneWay
    /\ (cls = "GpuCollector" /\ frame.failed) => frame.result \in {frame.smi, <<>>}

\* C29 (amended): as stated, but where the initialisation fails on macOS or
\* Windows and nvidia-smi gives nothing, the list returned is that of the
\* platform's own query.
C29_OneWayFallback ==
    /\ OneWay
    /\ (cls = "GpuCollector" /\ frame.failed) =>
           \/ frame.result \in {frame.smi, <<>>}
           \/ /\ host \in {"darwin", "win32"} /\ frame.before.use_nvml = "None"
              /\ frame.smi = <<>> /\ frame.result = frame.os

\* NVML worked in one collect() and raised in the next, which returned what
\* nvidia-smi gave
C29_FailedAfterWorking ==
    /\ cls = "GpuCollector" /\ frame.failed /\ frame.before.use_nvml = "True"
    /\ self.use_nvml = "False" /\ frame.result = <<"nvidia-smi">>

\* ========================================================= polling interval
\* The interval of the curses loop (args.interval, seconds) and of the
\* window (interval_ms), both counted in milliseconds.
MaxPresses == 4

\* --interval as given on the command line: any float
Intervals == {50, 300, 1000, 9800, 20000}

\* the '+'/'=' and '-' branches of the key loop of _run_tui
run_tui_key(interval, key) ==
    IF key \in {"+", "="}
    THEN (IF interval - 500 > 100 THEN interval - 500 ELSE 100)
    ELSE (IF interval + 500 < 10000 THEN interval + 500 ELSE 10000)

\* max(100, min(10000, self.interval_ms + delta_ms))
HousekeeperGui_change_interval(interval_ms, delta_ms) ==
    LET upper == IF interval_ms + delta_ms < 10000 THEN interval_ms + delta_ms ELSE 10000
    IN  IF upper > 100 THEN upper ELSE 100

NoPress == [op |-> "key", presses |-> 0, key |-> "", before |-> self.interval]

\* a '+', '=' or '-' read by getch() in _run_tui
run_tui_press ==
    /\ cls = "Tui" /\ frame.op = "key" /\ frame.presses < MaxPresses
    /\ \E key \in {"+", "=", "-"} :
         /\ self' = [self EXCEPT !.interval = run_tui_key(self.interval, key)]
         /\ frame' = [op |-> "key", presses |-> frame.presses + 1, key |-> key,
                      before |-> self.interval]
    /\ UNCHANGED <<cls, host, pc>>

\* <plus> or <minus> in the window
HousekeeperGui_press ==
    /\ cls = "HousekeeperGui" /\ frame.op = "key" /\ frame.presses < MaxPresses
    /\ \E key \in {"+", "-"} :
         /\ self' = [self EXCEPT !.interval =
                        HousekeeperGui_change_interval(self.interval,
                                                       IF key = "+" THEN 0 - 500 ELSE 500)]
         /\ frame' = [op |-> "key", presses |-> frame.presses + 1, key |-> key,
                      before |-> self.interval]
    /\ UNCHANGED <<cls, host, pc>>

InitInterval ==
    /\ cls \in {"Tui", "HousekeeperGui"}
    /\ host = EmptyMap
    /\ self \in {[interval |-> i] : i \in Intervals}
    /\ pc = "idle"
    /\ frame = NoPress

NextInterval == run_tui_press \/ HousekeeperGui_press

SpecInterval == InitInterval /\ [][NextInterval]_vars

\* ----------------------------------------------------------------- C30
\* C30: after one or more presses of '+', '=' or '-', the interval is within
\* 0.1 s and 10.0 s (100 ms and 10000 ms), and the press changed it by 0.5 s
\* (500 ms) unless it was clamped to one of the two bounds.
C30_IntervalInRange ==
    (cls \in {"Tui", "HousekeeperGui"} /\ frame.op = "key" /\ frame.presses > 0) =>
        /\ 100 <= self.interval /\ self.interval <= 10000
        /\ \/ Abs(self.interval - frame.before) = 500
           \/ self.interval \in {100, 10000}
====
